---- MODULE Spec2Model ----
(***************************************************************************)
(* Job execution engine of act (pkg/runner/run_context.go): the job        *)
(* executor returned by RunContext.Executor(), the job-container           *)
(* lifecycle (startJobContainer / stopJobContainer), the step dispatcher   *)
(* (newStepExecutor), the if: gate (EvalBool / isEnabled) and the derived  *)
(* job status (getJobContext).                                             *)
(*                                                                         *)
(* One behaviour is one run of the executor of one RunContext.  The        *)
(* outcome of every external operation (container backend, step engine,    *)
(* filesystem) is chosen nondeterministically when the operation runs, and *)
(* the outer context may be cancelled at any moment.                       *)
(***************************************************************************)
EXTENDS Integers, Sequences, FiniteSets, TLC

\* ------------------------------------------------------------------ bounds

\* largest number of steps of the job
MaxSteps == 2

\* ------------------------------------------------------------------ errors

\* an error value: what failed, and for a step error the index of the step
Err(k, n) == [kind |-> k, n |-> n]

\* the nil error
Nil == Err("nil", 0)

\* ctx.Err() of a cancelled context
CtxErr == Err("context canceled", 0)

\* ------------------------------------------------- expression gate (EvalBool)

\* an expression is a sequence of lexemes separated by single blanks: tokens
\* (the matches of splitPattern.FindAllString) and the lexeme " ", which is
\* further white space

\* the tokens the if: expressions of the model are made of
Tokens == {"true", "false", "${{ env.FLAG }}", "${{ false }}", "${{ !env.X }}",
           "${{ env.T }}", "env.FLAG", "==", "!=", "&&", "'false'", "!cancelled()", "bad("}

\* white space
Blank == " "

\* operatorPattern.MatchString(part)
IsOperator(part) == part \in {"==", "!=", "&&"}

\* expressionPattern.MatchString(part)
IsExpression(part) ==
    part \in {"${{ env.FLAG }}", "${{ false }}", "${{ !env.X }}", "${{ env.T }}"}

\* strings.Contains(part, "!")
ContainsBang(part) == part \in {"${{ !env.X }}", "!cancelled()", "!="}

\* strings.HasPrefix(part, "!")
StartsWithBang(part) == part \in {"!cancelled()", "!="}

\* strings.TrimSpace(expr), as far as the front of expr goes
RECURSIVE TrimSpace(_)
TrimSpace(expr) ==
    IF expr # <<>> /\ expr[1] = Blank THEN TrimSpace(Tail(expr)) ELSE expr

\* mutant of HasBangPrefix: the expression is not trimmed first
HasBangPrefix_NoTrim(expr) == expr # <<>> /\ StartsWithBang(expr[1])

\* strings.HasPrefix(strings.TrimSpace(expr), "!")
HasBangPrefix(expr) ==
    LET trimmed == TrimSpace(expr)
    IN  trimmed # <<>> /\ StartsWithBang(trimmed[1])

\* splitPattern.FindAllString(expr, -1): the tokens of expr
FindAllString(expr) == SelectSeq(expr, LAMBDA p : p # Blank)

\* rc.ExprEval.InterpolateWithStringCheck(part): the evaluator's
\* interpolation of one token and whether the result was typed as string;
\* env.FLAG is the string "false", env.X is the string "false", env.T is the
\* string "true"
InterpolateWithStringCheck(part) ==
    CASE part = "${{ env.FLAG }}" -> [s |-> "false", isString |-> TRUE]
      [] part = "${{ false }}"    -> [s |-> "false", isString |-> FALSE]
      [] part = "${{ !env.X }}"   -> [s |-> "false", isString |-> FALSE]
      [] part = "${{ env.T }}"    -> [s |-> "true", isString |-> TRUE]
      [] OTHER                    -> [s |-> part, isString |-> FALSE]

\* previousOrNextPartIsAnOperator(i, parts), i counted from 1
previousOrNextPartIsAnOperator(i, parts) ==
    LET operator == IF i > 1 THEN IsOperator(parts[i - 1]) ELSE FALSE
    IN  IF i + 1 <= Len(parts) THEN operator \/ IsOperator(parts[i + 1]) ELSE operator

\* mutant of EvaluatedPart: the neighbours of the token are not looked at
EvaluatedPart_StringOnly(i, parts) ==
    LET part == parts[i]
        r    == InterpolateWithStringCheck(part)
    IN  IF IsOperator(part) THEN part
        ELSE IF /\ IsExpression(part) /\ ~ContainsBang(part)
                /\ r.s = "false"
                /\ r.isString
             THEN "'false'"
             ELSE r.s

\* the body of the loop of EvalBool: the evaluated form of parts[i]
EvaluatedPart(i, parts) ==
    LET part == parts[i]
        r    == InterpolateWithStringCheck(part)
    IN  IF IsOperator(part) THEN part
        ELSE IF /\ IsExpression(part) /\ ~ContainsBang(part)
                /\ r.s = "false"
                /\ (r.isString \/ previousOrNextPartIsAnOperator(i, parts))
             THEN "'false'"
             ELSE r.s

\* the truthiness the evaluator gives one operand: of the literals only
\* false, the empty string and 0 are falsy; a context value is a string
Truthy(x) == x \notin {"false", "''", "0"}

\* the value the evaluator gives one operand: env.FLAG is the string 'false'
Operand(x) == IF x = "env.FLAG" THEN "'false'" ELSE x

\* rc.ExprEval.Evaluate("Boolean(<joined>)"): the evaluator's verdict on the
\* re-joined tokens, as text, or an error
Evaluate(joined) ==
    IF \E i \in 1..Len(joined) : joined[i] = "bad("
    THEN [v |-> "", err |-> Err("evaluate", 0)]
    ELSE IF Len(joined) = 1 /\ ~IsOperator(joined[1])
    THEN [v |-> IF Truthy(joined[1]) THEN "true" ELSE "false", err |-> Nil]
    ELSE IF Len(joined) = 3 /\ joined[2] = "==" /\ ~IsOperator(joined[1]) /\ ~IsOperator(joined[3])
    THEN [v |-> IF Operand(joined[1]) = Operand(joined[3]) THEN "true" ELSE "false",
          err |-> Nil]
    ELSE IF Len(joined) = 3 /\ joined[2] = "!=" /\ ~IsOperator(joined[1]) /\ ~IsOperator(joined[3])
    THEN [v |-> IF Operand(joined[1]) # Operand(joined[3]) THEN "true" ELSE "false",
          err |-> Nil]
    ELSE IF Len(joined) = 3 /\ joined[2] = "&&" /\ ~IsOperator(joined[1]) /\ ~IsOperator(joined[3])
    THEN [v |-> IF Truthy(joined[1]) /\ Truthy(joined[3]) THEN "true" ELSE "false", err |-> Nil]
    ELSE [v |-> "", err |-> Err("evaluate", 0)]

\* the calls of rc.ExprEval one run of the loop of EvalBool makes for parts[i]
InterpolateCalls(i, parts) ==
    IF IsOperator(parts[i]) THEN <<>>
    ELSE <<[fn |-> "InterpolateWithStringCheck", i |-> i, arg |-> <<parts[i]>>]>>

\* the calls of rc.ExprEval of the loop of EvalBool from parts[i] on
RECURSIVE LoopCalls(_, _)
LoopCalls(i, parts) ==
    IF i > Len(parts) THEN <<>> ELSE InterpolateCalls(i, parts) \o LoopCalls(i + 1, parts)

\* one call of rc.EvalBool(expr): the pair (bool, error) it returns, the
\* slice evaluatedParts and the calls of rc.ExprEval it makes, in order
EvalBoolCall(expr) ==
    IF HasBangPrefix(expr)
    THEN [b |-> FALSE, err |-> Err("expressions starting with ! must be wrapped", 0),
          evaluatedParts |-> <<>>, calls |-> <<>>]
    ELSE IF expr # <<>>
    THEN LET parts == FindAllString(expr)
             evaluatedParts == [i \in 1..Len(parts) |-> EvaluatedPart(i, parts)]
             r == Evaluate(evaluatedParts)
             calls == LoopCalls(1, parts)
                      \o <<[fn |-> "Evaluate", i |-> 0, arg |-> evaluatedParts]>>
         IN  IF r.err # Nil
             THEN [b |-> FALSE, err |-> r.err, evaluatedParts |-> evaluatedParts,
                   calls |-> calls]
             ELSE [b |-> (r.v = "true"), err |-> Nil, evaluatedParts |-> evaluatedParts,
                   calls |-> calls]
    ELSE [b |-> TRUE, err |-> Nil, evaluatedParts |-> <<>>, calls |-> <<>>]

\* rc.EvalBool(expr): the pair (bool, error)
EvalBool(expr) ==
    LET r == EvalBoolCall(expr)
    IN  [b |-> r.b, err |-> r.err]

\* ------------------------------------------- container name (createContainerName)

\* a string is a sequence of characters; the digits
Digits == {"0", "1"}

\* the characters [a-zA-Z0-9] of the model
Alnum == {"a", "c", "t"} \cup Digits

\* the characters workflow and job names are made of
NameChars == {"a", "1", "-", "."}

\* the text "act"
ActPrefix == <<"a", "c", "t">>

\* regexp [^a-zA-Z0-9], ReplaceAllString(part, "-")
ReplaceNonAlnum(s) == [i \in 1..Len(s) |-> IF s[i] \in Alnum THEN s[i] ELSE "-"]

\* trimToLen(s, l)
trimToLen(s, l) ==
    LET n == IF l < 0 THEN 0 ELSE l
    IN  IF Len(s) > n THEN SubSeq(s, 1, n) ELSE s

\* the number of digits s ends with
RECURSIVE TrailingDigits(_)
TrailingDigits(s) ==
    IF s = <<>> THEN 0
    ELSE IF s[Len(s)] \in Digits THEN 1 + TrailingDigits(SubSeq(s, 1, Len(s) - 1))
    ELSE 0

\* regexp -[0-9]+$, FindStringSubmatch(part): the match in a one-element
\* sequence, or the empty sequence when there is none
FindMatrixSuffix(part) ==
    LET d == TrailingDigits(part)
    IN  IF d >= 1 /\ Len(part) > d /\ part[Len(part) - d] = "-"
        THEN <<SubSeq(part, Len(part) - d, Len(part))>>
        ELSE <<>>

\* strings.Join(name, "-")
RECURSIVE Join(_)
Join(name) ==
    IF name = <<>> THEN <<>>
    ELSE IF Len(name) = 1 THEN name[1]
    ELSE name[1] \o <<"-">> \o Join(Tail(name))

\* strings.TrimLeft(s, "-")
RECURSIVE TrimLeft(_)
TrimLeft(s) == IF s # <<>> /\ s[1] = "-" THEN TrimLeft(Tail(s)) ELSE s

\* strings.TrimRight(s, "-")
RECURSIVE TrimRight(_)
TrimRight(s) ==
    IF s # <<>> /\ s[Len(s)] = "-" THEN TrimRight(SubSeq(s, 1, Len(s) - 1)) ELSE s

\* strings.Trim(s, "-")
Trim(s) == TrimRight(TrimLeft(s))

\* strings.ReplaceAll(s, "--", "-"): the non-overlapping occurrences of "--",
\* found from the left, each become "-"
RECURSIVE ReplaceAll(_)
ReplaceAll(s) ==
    IF Len(s) < 2 THEN s
    ELSE IF s[1] = "-" /\ s[2] = "-" THEN <<"-">> \o ReplaceAll(Tail(Tail(s)))
    ELSE <<s[1]>> \o ReplaceAll(Tail(s))

\* the number the length of a part is derived from
NameLen == 30

\* mutant of NamePieces: every part is trimmed to partLen, the last one too
NamePieces_TrimLast(parts, i) ==
    LET partLen == (NameLen \div Len(parts)) - 1
    IN  <<trimToLen(ReplaceNonAlnum(parts[i]), partLen)>>

\* the elements createContainerName appends to name for parts[i]
NamePieces(parts, i) ==
    LET part    == parts[i]
        partLen == (NameLen \div Len(parts)) - 1
        num     == FindMatrixSuffix(part)
    IN  IF i = Len(parts) THEN <<ReplaceNonAlnum(part)>>
        ELSE IF Len(num) > 0
        THEN <<trimToLen(ReplaceNonAlnum(part), partLen - Len(num[1])), num[1]>>
        ELSE <<trimToLen(ReplaceNonAlnum(part), partLen)>>

\* the slice name of createContainerName after the parts from i on are handled
RECURSIVE NameFrom(_, _)
NameFrom(parts, i) ==
    IF i > Len(parts) THEN <<>> ELSE NamePieces(parts, i) \o NameFrom(parts, i + 1)

\* createContainerName(parts...)
createContainerName(parts) == ReplaceAll(Trim(Join(NameFrom(parts, 1))))

\* rc.String(): "<workflow name>/<job name>"
String(workflow, job) == workflow \o <<"/">> \o job

\* rc.jobContainerName()
jobContainerName(workflow, job) == createContainerName(<<ActPrefix, String(workflow, job)>>)

\* ------------------------------------------------------------------ inputs

\* rc.ExprEval.Interpolate(s) on the strings of a job definition
Interpolate(s) ==
    CASE s = "${{ matrix.os }}"    -> "Ubuntu-Latest"
      [] s = "${{ matrix.image }}" -> ""
      [] OTHER                     -> s

\* strings.ToLower on the platform names of the model
ToLower(s) == IF s = "Ubuntu-Latest" THEN "ubuntu-latest" ELSE s

\* rc.Config.Platforms[name]; "" for a name that is not mapped
Platforms(name) ==
    CASE name = "ubuntu-latest" -> "catthehacker/ubuntu:act-latest"
      [] name = "self-hosted"   -> "-self-hosted"
      [] OTHER                  -> ""

\* the daemon socket GetBindsAndMounts falls back to
DefaultSocket == "/var/run/docker.sock"

\* a daemon socket the user configures
CustomSocket == "/custom/docker.sock"

\* the engine configuration without flags: no daemon socket configured
DefaultConfig ==
    [ReuseContainers |-> FALSE, BindWorkdir |-> FALSE, ForceRemoteCheckout |-> FALSE,
     ContainerDaemonSocket |-> ""]

\* the engine configurations: Config.ReuseContainers, Config.BindWorkdir,
\* Config.ForceRemoteCheckout, Config.ContainerDaemonSocket
Configs ==
    { DefaultConfig,
      [DefaultConfig EXCEPT !.ReuseContainers = TRUE],
      [DefaultConfig EXCEPT !.BindWorkdir = TRUE],
      [DefaultConfig EXCEPT !.ForceRemoteCheckout = TRUE],
      [DefaultConfig EXCEPT !.ContainerDaemonSocket = CustomSocket] }

\* a job without a container: block
NoContainer == [set |-> FALSE, Image |-> ""]

\* the container: block of a job
ContainerImage(img) == [set |-> TRUE, Image |-> img]

\* the jobs of the model without their steps: if: expression, container:
\* block and runs-on labels
JobHeads ==
    { [If |-> <<>>, Container |-> ContainerImage("node:16"), RunsOn |-> <<"ubuntu-latest">>],
      [If |-> <<"${{ env.FLAG }}", "==", "'false'">>, Container |-> NoContainer,
       RunsOn |-> <<"win-obscure", "${{ matrix.os }}">>],
      [If |-> <<>>, Container |-> NoContainer, RunsOn |-> <<"self-hosted">>],
      [If |-> <<"false">>, Container |-> NoContainer, RunsOn |-> <<"ubuntu-latest">>],
      [If |-> <<"!cancelled()">>, Container |-> NoContainer, RunsOn |-> <<"ubuntu-latest">>],
      [If |-> <<"bad(">>, Container |-> NoContainer, RunsOn |-> <<"self-hosted">>],
      [If |-> <<>>, Container |-> NoContainer, RunsOn |-> <<"win-obscure">>],
      [If |-> <<>>, Container |-> NoContainer, RunsOn |-> <<>>],
      [If |-> <<>>, Container |-> ContainerImage("${{ matrix.image }}"),
       RunsOn |-> <<"ubuntu-latest">>] }

\* the kinds of step of the model: if: expression, continue-on-error, whether
\* the workflow names the step (gives it an id), and whether it is a checkout
\* of the local repository (githubContext.isLocalCheckout)
StepKinds ==
    { [If |-> <<>>, ContinueOnError |-> FALSE, named |-> FALSE, checkout |-> TRUE],
      [If |-> <<"true">>, ContinueOnError |-> TRUE, named |-> TRUE, checkout |-> FALSE],
      [If |-> <<"${{ false }}">>, ContinueOnError |-> FALSE, named |-> TRUE, checkout |-> FALSE],
      [If |-> <<"!cancelled()">>, ContinueOnError |-> FALSE, named |-> FALSE, checkout |-> FALSE] }

\* the id the workflow gives the named step at position i
StepNames(i) == IF i = 1 THEN "build" ELSE IF i = 2 THEN "test" ELSE IF i = 3 THEN "lint" ELSE "deploy"

\* the steps of a job, as parsed from the workflow: an unnamed step has ID ""
StepLists ==
    UNION { [1..n -> StepKinds] : n \in 0..MaxSteps }

\* model.Step of position i made from a kind
MkStep(k, i) ==
    [ID |-> IF k.named THEN StepNames(i) ELSE "", If |-> k.If,
     ContinueOnError |-> k.ContinueOnError, checkout |-> k.checkout]

\* ------------------------------------------------------------------- state

VARIABLES
    Config,        \* rc.Config: the engine configuration of the run
    Job,           \* rc.Run.Job(): If, Container, RunsOn, Steps
    pc,            \* the stage of the executor that runs next
    stepIdx,       \* the position of the step that is dispatched next (1-based)
    cancelled,     \* whether the outer context has been cancelled
    JobContainer,  \* rc.JobContainer: "nil", "docker" or "host" (a HostExecutor)
    CurrentStep,   \* rc.CurrentStep
    StepResults,   \* rc.StepResults: step id -> [Success, Outputs]
    ExprEval,      \* rc.ExprEval: 0 = the job's evaluator, i = bound by setupEnv of step i
    err,           \* the outcome of the pipeline of stages (in flight until the end)
    inFinally,     \* whether the pipeline of stages has returned (Finally stages run)
    stopCtx,       \* the context the running stopJobContainer hands its operations
    stopErr,       \* the outcome of Remove().Then(volume-remove) of the running teardown
    result,        \* what the job executor returned
    trace,         \* the operations invoked so far, in order
    firstFailure,  \* the first error a provisioning stage or a step dispatcher returned
    stepLog,       \* per dispatched step: what the dispatcher did and returned
    Local,         \* rc.Local
    Env,           \* rc.Env: key -> value (a value is a sequence of pieces of text)
    scratch,       \* the directories of the scratch tree under the action cache dir that exist
    newContainers, \* how often container.NewContainer has been called
    workflowName,  \* rc.Run.Workflow.Name, a sequence of characters
    jobName,       \* rc.Name, a sequence of characters
    containerName, \* the result of rc.jobContainerName(), <<>> before the call
    expr,          \* the argument of a call of rc.EvalBool
    evalOut,       \* what that call returned and how it consulted the evaluator
    runsOn,        \* job.RunsOn() of a call of withGithubEnv, each label a character sequence
    githubEnv,     \* what that call of withGithubEnv left in env["ImageOS"]
    envIsNil,      \* whether rc.Env is nil, for the calls of GetEnv
    envLevels,     \* Config.Env, Run.Workflow.Env and Run.Job().Environment()
    getEnvLog,     \* the calls of GetEnv so far, and what the last one found and left
    splitPattern,  \* the package variable splitPattern: nil or the compiled pattern
    tasks,         \* per parallel task: the stage of its job and the statement it is at
    binds,         \* per parallel task: the daemon socket GetBindsAndMounts put in binds
    patternWrites, \* how often the parallel tasks have assigned splitPattern
    configWrites,  \* how often the parallel tasks have assigned a field of Config
    rcs,           \* the run contexts of a composite action: "parent" and its "clone"
    heap           \* the maps those run contexts refer to, by reference

vars == <<Config, Job, pc, stepIdx, cancelled, JobContainer, CurrentStep, StepResults,
          ExprEval, err, inFinally, stopCtx, stopErr, result, trace, firstFailure, stepLog,
          Local, Env, scratch, newContainers, workflowName, jobName, containerName,
          expr, evalOut, runsOn, githubEnv, envIsNil, envLevels, getEnvLog,
          splitPattern, tasks, binds, patternWrites, configWrites, rcs, heap>>

\* what startJobContainer writes besides JobContainer
hostVars == <<Local, Env, scratch, newContainers>>

\* the names of the run and the container name derived from them
nameVars == <<workflowName, jobName, containerName>>

\* a call of EvalBool on its own
evalVars == <<expr, evalOut>>

\* a call of withGithubEnv on its own
imageVars == <<runsOn, githubEnv>>

\* calls of GetEnv on their own
envVars == <<envIsNil, envLevels, getEnvLog>>

\* the run contexts that run in parallel tasks
taskVars == <<tasks, binds, patternWrites, configWrites>>

\* a run context and its clone
cloneVars == <<rcs, heap>>

\* the state of the calls that are made outside a run of the executor
callVars == <<nameVars, evalVars, imageVars, envVars, taskVars, cloneVars>>

\* that state, and the package variable
fnVars == <<callVars, splitPattern>>

\* the fields of the run context that only the step dispatcher writes
stepVars == <<CurrentStep, StepResults, ExprEval, stepLog>>

\* the state of the running teardown
stopVars == <<stopCtx, stopErr>>

\* the inputs of the run
inputVars == <<Config, Job>>

\* everything a run of the job executor reads or writes
runVars == <<inputVars, hostVars, pc, stepIdx, cancelled, JobContainer, stepVars, err,
             inFinally, stopVars, result, trace, firstFailure>>

\* an entry of trace: an operation, and the step position for step operations
Op(o) == [op |-> o, n |-> 0]

\* an entry of trace for step i
StepOp(o, i) == [op |-> o, n |-> i]

\* the empty map
EmptyMap == [x \in {} |-> ""]

\* m[k] = v, adding k when it is not a key of m
Put(m, k, v) == [x \in DOMAIN m \cup {k} |-> IF x = k THEN v ELSE m[x]]

\* the run context of a job made from one of the heads and one of the step
\* lists, under one of the configurations, before its executor runs
NewRunContext(configs, heads, lists) ==
    /\ Config \in configs
    /\ \E h \in heads, ks \in lists :
          Job = [If |-> h.If, Container |-> h.Container, RunsOn |-> h.RunsOn,
                 Steps |-> [i \in 1..Len(ks) |-> MkStep(ks[i], i)]]
    /\ pc = "Executor"
    /\ stepIdx = 1
    /\ cancelled = FALSE
    /\ JobContainer = "nil"
    /\ CurrentStep = ""
    /\ StepResults = EmptyMap
    /\ ExprEval = 0
    /\ err = Nil
    /\ inFinally = FALSE
    /\ stopCtx = "none"
    /\ stopErr = Nil
    /\ result = Nil
    /\ trace = <<>>
    /\ firstFailure = Nil
    /\ stepLog = <<>>
    /\ Local = FALSE
    /\ Env = EmptyMap
    /\ scratch = {}
    /\ newContainers = 0

\* the value of evalOut while EvalBool has not been called
NotCalled == [called |-> FALSE]

\* no call of jobContainerName is being followed
NoNameCall ==
    /\ workflowName = <<"a">>
    /\ jobName = <<"a">>
    /\ containerName = <<>>

\* no call of EvalBool is being followed
NoEvalCall ==
    /\ expr = <<>>
    /\ evalOut = NotCalled

\* no call of withGithubEnv is being followed
NoImageCall ==
    /\ runsOn = <<>>
    /\ githubEnv = NotCalled

\* no call of GetEnv is being followed: rc.Env has been built from empty
\* configured environments
NoEnvCall ==
    /\ envIsNil = FALSE
    /\ envLevels = <<EmptyMap, EmptyMap, EmptyMap>>
    /\ getEnvLog = [calls |-> 0, merges |-> 0]

\* splitPattern == nil
NilPattern == "nil"

\* the value regexp.MustCompile returns for the pattern of EvalBool
CompiledPattern == "regexp"

\* no run context runs in a parallel task
NoTasks ==
    /\ tasks = <<>>
    /\ binds = <<>>
    /\ patternWrites = 0
    /\ configWrites = 0

\* no run context is cloned
NoClone ==
    /\ rcs = <<>>
    /\ heap = <<>>

\* the state outside the run context that is followed: no call, no parallel
\* task, no clone
NoCalls ==
    /\ NoNameCall
    /\ NoEvalCall
    /\ NoImageCall
    /\ NoEnvCall
    /\ NoTasks
    /\ NoClone

Init ==
    /\ NewRunContext(Configs, JobHeads, StepLists)
    /\ NoCalls
    /\ splitPattern = NilPattern

\* --------------------------------------------------------- derived values

\* the first non-empty image of the runs-on labels from position i on
RECURSIVE platformOfLabels(_, _)
platformOfLabels(labels, i) ==
    IF i > Len(labels) THEN ""
    ELSE LET platformName == Interpolate(labels[i])
             image == Platforms(ToLower(platformName))
         IN  IF image # "" THEN image ELSE platformOfLabels(labels, i + 1)

\* rc.platformImage()
platformImage ==
    IF Job.Container.set THEN Interpolate(Job.Container.Image)
    ELSE platformOfLabels(Job.RunsOn, 1)

\* mutant of isEnabled: the platform image is not looked at
isEnabled_IfOnly ==
    LET r == EvalBool(Job.If)
    IN  IF r.err # Nil THEN FALSE
        ELSE IF ~r.b THEN FALSE
        ELSE TRUE

\* rc.isEnabled(ctx)
isEnabled ==
    LET r == EvalBool(Job.If)
    IN  IF r.err # Nil THEN FALSE
        ELSE IF ~r.b THEN FALSE
        ELSE IF platformImage = "" THEN FALSE
        ELSE TRUE

\* the id of the step at position i once Executor() has given the unnamed
\* steps their decimal index (counted from 0)
StepID(i) == IF Job.Steps[i].ID = "" THEN ToString(i - 1) ELSE Job.Steps[i].ID

\* rc.localCheckoutPath(): whether some step is a checkout of the local repository
localCheckoutPath ==
    IF Config.ForceRemoteCheckout THEN FALSE
    ELSE \E i \in 1..Len(Job.Steps) : Job.Steps[i].checkout

\* copyWorkspace of startJobContainer
copyWorkspace == IF ~Config.BindWorkdir THEN localCheckoutPath ELSE FALSE

\* rc.getJobContext().Status
getJobContext ==
    IF \E id \in DOMAIN StepResults : ~StepResults[id].Success THEN "failure" ELSE "success"

\* ------------------------------------------------- executor combinators

\* Executor.Finally(cleanup): what the composition returns when self
\* returned e and cleanup returned e2 (the failure of cleanup is logged)
FinallyResult(e, e2) == e

\* mutant of StartPipeline: the stale container is removed after Create
StartPipeline_CreateFirst ==
    <<"Pull", "Create", "stopJobContainer", "Start", "UpdateFromImageEnv",
      "UpdateFromEnv", "Exec", "CopyDir", "Copy">>

\* the stages of the container-mode pipeline of startJobContainer, in order
StartPipeline ==
    <<"Pull", "stopJobContainer", "Create", "Start", "UpdateFromImageEnv",
      "UpdateFromEnv", "Exec", "CopyDir", "Copy">>

\* the stages of the HostExecutor pipeline of startJobContainer, in order
HostPipeline == <<"CopyDir", "Copy">>

\* mutant of FinallyStages: Executor() registers no stopJobContainer Finally
FinallyStages_NoTeardown == <<"interpolateOutputs">>

\* mutant of FinallyStages: the two Finally stages are registered in the
\* other order
FinallyStages_TeardownFirst == <<"stopJobContainer", "interpolateOutputs">>

\* the Finally stages of Executor(), in the order they run
FinallyStages == <<"interpolateOutputs", "stopJobContainer">>

\* the position of stage p in the sequence of stages seq
IndexOf(seq, p) == CHOOSE k \in 1..Len(seq) : seq[k] = p

\* what follows startJobContainer in the job pipeline: the first step, or
\* the end of the pipeline
AfterStart == IF Len(Job.Steps) >= 1 THEN "step" ELSE "end"

\* what follows the step at position i in the job pipeline
AfterStep(i) == IF i < Len(Job.Steps) THEN "step" ELSE "end"

\* the stage that follows stage p in the pipeline of startJobContainer
NextInStart(p) ==
    LET seq == IF JobContainer = "host" THEN HostPipeline ELSE StartPipeline
        k   == IndexOf(seq, p)
    IN  IF k < Len(seq) THEN seq[k + 1] ELSE AfterStart

\* the Finally stage that follows Finally stage number k (0: the pipeline)
FinallyFrom(k) == IF k < Len(FinallyStages) THEN FinallyStages[k + 1] ELSE "done"

\* the pipeline of stages returns e: the Finally stages run next
PipelineReturn(e) == [pc |-> FinallyFrom(0), err |-> e, inFinally |-> TRUE]

\* Executor.Then / NewPipelineExecutor: a stage returned e under a context
\* whose cancellation is c, and `next` is the stage after it ("end" if none)
Then(c, e, next) ==
    IF e # Nil THEN PipelineReturn(e)
    ELSE IF next = "end" THEN PipelineReturn(Nil)
    ELSE IF c THEN PipelineReturn(CtxErr)
    ELSE [pc |-> next, err |-> Nil, inFinally |-> FALSE]

\* the Finally stage p returned e2: the next Finally stage, or the end
FinallyReturn(p, e2) ==
    [pc |-> FinallyFrom(IndexOf(FinallyStages, p)), err |-> FinallyResult(err, e2),
     inFinally |-> TRUE]

\* moves the executor on as the record c says; the executor returns its
\* outcome when it reaches "done"
Continue(c) ==
    /\ pc' = c.pc
    /\ err' = c.err
    /\ inFinally' = c.inFinally
    /\ result' = IF c.pc = "done" THEN c.err ELSE result

\* a stage of the job pipeline (or of the pipeline of startJobContainer)
\* returned e, and `next` is the stage after it
Stage(e, next) ==
    /\ Continue(Then(cancelled, e, next))
    /\ firstFailure' = IF firstFailure = Nil THEN e ELSE firstFailure

\* the outcome of an external operation: nil, or its own error
Outcome(ok, name) == IF ok THEN Nil ELSE Err(name, 0)

\* ------------------------------------------------------ host environment

\* a text is a sequence of pieces; the piece "=" is the character '='
\* what os.Environ() may return: entries KEY=VALUE, an entry without '=',
\* an entry that begins with '=', a value that holds '='
HostEnvirons ==
    { <<>>,
      << <<"PATH", "=", "/usr/bin">> >>,
      << <<"RUNNER_OS", "=", "Windows">>, <<"=", "C:", "=", "C:/work">> >>,
      << <<"RUNNER_TEMP", "=", "/runner/tmp">>, <<"NOVALUE">>,
         <<"OPTS", "=", "a", "=", "b">> >> }

\* strings.Index(env, "="), counted in pieces from 0; -1 when there is none
RECURSIVE Index(_, _)
Index(env, from) ==
    IF from > Len(env) THEN -1
    ELSE IF env[from] = "=" THEN from - 1
    ELSE Index(env, from + 1)

\* one pass of the loop over os.Environ(): rc.Env[env[0:i]] = env[i+1:]
\* when i > 0
ReflectEntry(m, env) ==
    LET i == Index(env, 1)
    IN  IF i > 0 THEN Put(m, SubSeq(env, 1, i), SubSeq(env, i + 2, Len(env))) ELSE m

\* the loop over os.Environ() from entry k on
RECURSIVE ReflectEnviron(_, _, _)
ReflectEnviron(m, environ, k) ==
    IF k > Len(environ) THEN m
    ELSE ReflectEnviron(ReflectEntry(m, environ[k]), environ, k + 1)

\* runtime.GOOS
GOOS == <<"linux">>

\* os.TempDir()
TempDir == <<"/tmp">>

\* filepath.Join(rc.GetActPath(), "tool_cache")
ToolCache == <<"<cacheDir>/<uuid>/act", "/tool_cache">>

\* rc.Env after startJobContainer of the HostExecutor mode has written it
HostEnv(m, environ) ==
    ReflectEnviron(Put(Put(Put(m, <<"RUNNER_TOOL_CACHE">>, ToolCache),
                           <<"RUNNER_OS">>, GOOS),
                       <<"RUNNER_TEMP">>, TempDir),
                   environ, 1)

\* the directories os.MkdirAll(actPath) leaves when it fails: none, or the
\* scratch directory without act/
PartialActPath == { {}, {"<uuid>"} }

\* the directories that exist once os.MkdirAll(actPath) has succeeded
ActPathDirs == {"<uuid>", "<uuid>/act"}

\* the directories that exist once os.MkdirAll(path) has succeeded as well
ScratchTree == ActPathDirs \cup {"<uuid>/hostexecutor"}

\* ------------------------------------------------------ job executor

\* Executor(): the pipeline with its Finally stages runs only If(rc.isEnabled);
\* a disabled job returns nil
Executor ==
    /\ pc = "Executor"
    /\ IF isEnabled
       THEN Continue([pc |-> "logMatrix", err |-> Nil, inFinally |-> FALSE])
       ELSE Continue([pc |-> "done", err |-> Nil, inFinally |-> FALSE])
    /\ splitPattern' = CompiledPattern
    /\ UNCHANGED <<inputVars, callVars, hostVars, stepIdx, cancelled, JobContainer, stepVars,
                   stopVars, trace, firstFailure>>

\* the first stage of the job pipeline: logs the matrix
LogMatrix ==
    /\ pc = "logMatrix"
    /\ trace' = Append(trace, Op("logMatrix"))
    /\ Stage(Nil, "startJobContainer")
    /\ UNCHANGED <<inputVars, fnVars, hostVars, stepIdx, cancelled, JobContainer, stepVars, stopVars>>

\* startJobContainer for the image "-self-hosted": the scratch directories,
\* the HostExecutor handle, then the pipeline CopyDir, Copy
StartHost ==
    /\ pc = "startJobContainer"
    /\ platformImage = "-self-hosted"
    /\ trace' = Append(trace, Op("startJobContainer"))
    /\ \E mkAct, mkHost \in BOOLEAN :
          IF ~mkAct
          THEN /\ Stage(Err("MkdirAll act", 0), AfterStart)
               /\ scratch' \in PartialActPath
               /\ UNCHANGED <<JobContainer, Local, Env>>
          ELSE IF ~mkHost
          THEN /\ Stage(Err("MkdirAll hostexecutor", 0), AfterStart)
               /\ scratch' = ActPathDirs
               /\ UNCHANGED <<JobContainer, Local, Env>>
          ELSE /\ scratch' = ScratchTree
               /\ JobContainer' = "host"
               /\ Local' = TRUE
               /\ \E environ \in HostEnvirons : Env' = HostEnv(Env, environ)
               /\ Continue([pc |-> HostPipeline[1], err |-> Nil, inFinally |-> FALSE])
               /\ UNCHANGED firstFailure
    /\ UNCHANGED <<inputVars, fnVars, newContainers, stepIdx, cancelled, stepVars, stopVars>>

\* startJobContainer for any other image: the container handle (a nil handle
\* is an error), then the provisioning pipeline
StartContainer ==
    /\ pc = "startJobContainer"
    /\ platformImage # "-self-hosted"
    /\ trace' = Append(trace, Op("startJobContainer"))
    /\ newContainers' = newContainers + 1
    /\ Config' = [Config EXCEPT !.ContainerDaemonSocket = IF @ = "" THEN DefaultSocket ELSE @]
    /\ \E handle \in {"nil", "docker"} :
          /\ JobContainer' = handle
          /\ IF handle = "nil"
             THEN Stage(Err("Failed to create Container", 0), AfterStart)
             ELSE /\ Continue([pc |-> StartPipeline[1], err |-> Nil, inFinally |-> FALSE])
                  /\ UNCHANGED firstFailure
    /\ UNCHANGED <<Job, fnVars, Local, Env, scratch, stepIdx, cancelled, stepVars, stopVars>>

\* a stage of the pipeline of startJobContainer that is one operation of the
\* container handle
ContainerOp(name) ==
    /\ pc = name
    /\ trace' = Append(trace, Op(name))
    /\ \E ok \in BOOLEAN : Stage(Outcome(ok, name), NextInStart(name))
    /\ UNCHANGED <<inputVars, fnVars, hostVars, stepIdx, cancelled, JobContainer, stepVars, stopVars>>

\* rc.JobContainer.Pull(rc.Config.ForcePull)
Pull == ContainerOp("Pull")

\* rc.JobContainer.Create(capAdd, capDrop)
Create == ContainerOp("Create")

\* rc.JobContainer.Start(false)
Start == ContainerOp("Start")

\* rc.JobContainer.UpdateFromImageEnv(&rc.Env)
UpdateFromImageEnv == ContainerOp("UpdateFromImageEnv")

\* rc.JobContainer.UpdateFromEnv("/etc/environment", &rc.Env)
UpdateFromEnv == ContainerOp("UpdateFromEnv")

\* rc.JobContainer.Exec(mkdir -m 0777 -p actPath) as root
Exec == ContainerOp("Exec")

\* rc.JobContainer.Copy(actPath, event.json, envs.txt, paths.txt)
Copy == ContainerOp("Copy")

\* rc.JobContainer.CopyDir(...).IfBool(copyWorkspace)
CopyDir ==
    /\ pc = "CopyDir"
    /\ IF copyWorkspace
       THEN /\ trace' = Append(trace, Op("CopyDir"))
            /\ \E ok \in BOOLEAN :
                  Stage(Outcome(ok, "CopyDir"), NextInStart("CopyDir"))
       ELSE /\ trace' = trace
            /\ Stage(Nil, NextInStart("CopyDir"))
    /\ UNCHANGED <<inputVars, fnVars, hostVars, stepIdx, cancelled, JobContainer, stepVars, stopVars>>

\* interpolateOutputs(): a Finally stage; it returns nil
interpolateOutputs ==
    /\ pc = "interpolateOutputs"
    /\ trace' = Append(trace, Op("interpolateOutputs"))
    /\ Continue(FinallyReturn("interpolateOutputs", Nil))
    /\ UNCHANGED <<inputVars, fnVars, hostVars, stepIdx, cancelled, JobContainer, stepVars, stopVars,
                   firstFailure>>

\* ------------------------------------------------------------ teardown

\* mutant of StopGuard: the teardown is skipped while an error is in flight
StopGuard_OnlyOnSuccess == JobContainer # "nil" /\ ~Config.ReuseContainers /\ err = Nil

\* mutant of StopGuard: rc.JobContainer is not compared with nil
StopGuard_IgnoresNil == ~Config.ReuseContainers

\* the condition under which stopJobContainer removes the job container
StopGuard == JobContainer # "nil" /\ ~Config.ReuseContainers

\* mutant of StopContext: the teardown runs under the context it was given
StopContext_Outer == "outer"

\* the context stopJobContainer hands Remove, volume-remove and Close:
\* common.WithLogger(context.Background(), ...)
StopContext == "background"

\* ctx.Err() != nil for the context c
CtxCancelled(c) == c = "outer" /\ cancelled

\* mutant of VolumeRemoveGuard: the kind of the handle is not looked at
VolumeRemoveGuard_Always == TRUE

\* the If predicate of the volume-remove: the handle is no HostExecutor
VolumeRemoveGuard == JobContainer # "host"

\* stopJobContainer returned e: to the pipeline of startJobContainer, or to
\* the Finally of Executor()
StopReturn(e) ==
    Continue(IF inFinally THEN FinallyReturn("stopJobContainer", e)
             ELSE Then(cancelled, e, NextInStart("stopJobContainer")))

\* stopJobContainer(): the guard of the teardown
stopJobContainer ==
    /\ pc = "stopJobContainer"
    /\ trace' = Append(trace, Op("stopJobContainer"))
    /\ IF StopGuard
       THEN /\ pc' = "Remove"
            /\ stopCtx' = StopContext
            /\ stopErr' = Nil
            /\ UNCHANGED <<err, inFinally, result>>
       ELSE /\ StopReturn(Nil)
            /\ UNCHANGED stopVars
    /\ UNCHANGED <<inputVars, fnVars, hostVars, stepIdx, cancelled, JobContainer, stepVars, firstFailure>>

\* HostExecutor.Remove() calls the CleanUp closure of the handle:
\* os.RemoveAll(miscpath)
CleanUp == {}

\* rc.JobContainer.Remove(), and the Then that leads to the volume-remove
Remove ==
    /\ pc = "Remove"
    /\ trace' = Append(trace, Op("Remove"))
    /\ scratch' = IF JobContainer = "host" THEN CleanUp ELSE scratch
    /\ \E ok \in BOOLEAN :
          LET e == Outcome(ok, "Remove")
          IN  IF e # Nil THEN pc' = "Close" /\ stopErr' = e
              ELSE IF CtxCancelled(stopCtx) THEN pc' = "Close" /\ stopErr' = CtxErr
              ELSE IF ~VolumeRemoveGuard THEN pc' = "Close" /\ stopErr' = Nil
              ELSE pc' = "VolumeRemove" /\ stopErr' = Nil
    /\ UNCHANGED <<inputVars, fnVars, Local, Env, newContainers, stepIdx, cancelled,
                   JobContainer, stepVars, stopCtx, err, inFinally, result, firstFailure>>

\* container.NewDockerVolumeRemoveExecutor(rc.jobContainerName(), false)
VolumeRemove ==
    /\ pc = "VolumeRemove"
    /\ trace' = Append(trace, Op("VolumeRemove"))
    /\ \E ok \in BOOLEAN : stopErr' = Outcome(ok, "VolumeRemove")
    /\ pc' = "Close"
    /\ UNCHANGED <<inputVars, fnVars, hostVars, stepIdx, cancelled, JobContainer, stepVars, stopCtx,
                   err, inFinally, result, firstFailure>>

\* rc.JobContainer.Close(), the Finally of the teardown; stopJobContainer returns
Close ==
    /\ pc = "Close"
    /\ trace' = Append(trace, Op("Close"))
    /\ \E ok \in BOOLEAN : StopReturn(FinallyResult(stopErr, Outcome(ok, "Close")))
    /\ stopCtx' = "none"
    /\ stopErr' = Nil
    /\ UNCHANGED <<inputVars, fnVars, hostVars, stepIdx, cancelled, JobContainer, stepVars, firstFailure>>

\* the outer context is cancelled
Cancel ==
    /\ ~cancelled
    /\ pc # "done"
    /\ cancelled' = TRUE
    /\ trace' = Append(trace, Op("cancel"))
    /\ UNCHANGED <<inputVars, fnVars, hostVars, pc, stepIdx, JobContainer, stepVars, err, inFinally,
                   stopVars, result, firstFailure>>

\* ------------------------------------------------------ step dispatcher

\* what one run of the dispatcher did: its return value, the Success it left
\* in the step's result, whether setupEnv was called ("none", "ok",
\* "failed") and whether the step executor (the user code) ran
Did(ret, success, setupEnv, ran) ==
    [ret |-> ret, Success |-> success, setupEnv |-> setupEnv, ran |-> ran]

\* the branch of newStepExecutor for an error of the if: expression: setupEnv
\* is attempted; `exprEval, err := sc.setupEnv(ctx)` declares a new err in the
\* block, so the final `return err` returns the error of setupEnv, which is nil
OnIfError(i, ifErr, setupOk) ==
    IF ~setupOk THEN Did(Err("setupEnv", i), TRUE, "failed", FALSE)
    ELSE Did(Nil, FALSE, "ok", FALSE)

\* mutant of OnStepFailure: ContinueOnError is not consulted
OnStepFailure_IgnoreContinue(i, step) == Did(Err("step", i), FALSE, "ok", TRUE)

\* the branch of newStepExecutor for a failed step executor
OnStepFailure(i, step) ==
    IF step.ContinueOnError THEN Did(Nil, TRUE, "ok", TRUE)
    ELSE Did(Err("step", i), FALSE, "ok", TRUE)

\* mutant of StepOutcome: setupEnv is called before the result of the if:
\* expression is looked at
StepOutcome_SetupBeforeGate(i, step, setupOk, execOk) ==
    LET r == EvalBool(step.If)
    IN  IF r.err # Nil THEN OnIfError(i, r.err, setupOk)
        ELSE IF ~setupOk THEN Did(Err("setupEnv", i), TRUE, "failed", FALSE)
        ELSE IF ~r.b THEN Did(Nil, TRUE, "ok", FALSE)
        ELSE IF execOk THEN Did(Nil, TRUE, "ok", TRUE)
        ELSE OnStepFailure(i, step)

\* the executor of newStepExecutor after CurrentStep and the fresh step result
\* are set, for the outcomes setupOk of setupEnv and execOk of the step executor
StepOutcome(i, step, setupOk, execOk) ==
    LET r == EvalBool(step.If)
    IN  IF r.err # Nil THEN OnIfError(i, r.err, setupOk)
        ELSE IF ~r.b THEN Did(Nil, TRUE, "none", FALSE)
        ELSE IF ~setupOk THEN Did(Err("setupEnv", i), TRUE, "failed", FALSE)
        ELSE IF execOk THEN Did(Nil, TRUE, "ok", TRUE)
        ELSE OnStepFailure(i, step)

\* the outputs a step executor that ran leaves in the step's result
OutputsOf(ran) == IF ran THEN [x \in {"result"} |-> "1"] ELSE EmptyMap

\* the operations one run of the dispatcher of step i invokes, in order
StepOps(i, d) ==
    <<StepOp("dispatch", i)>>
    \o (IF d.setupEnv # "none" THEN <<StepOp("setupEnv", i)>> ELSE <<>>)
    \o (IF d.ran THEN <<StepOp("exec", i)>> ELSE <<>>)

\* the executor returned by newStepExecutor(step) for the step at stepIdx
newStepExecutor ==
    /\ pc = "step"
    /\ \E setupOk, execOk \in BOOLEAN :
          LET i    == stepIdx
              step == Job.Steps[i]
              id   == StepID(i)
              d    == StepOutcome(i, step, setupOk, execOk)
          IN  /\ CurrentStep' = id
              /\ StepResults' = Put(StepResults, id,
                                    [Success |-> d.Success, Outputs |-> OutputsOf(d.ran)])
              /\ ExprEval' = IF d.setupEnv = "ok" THEN i ELSE ExprEval
              /\ stepLog' = Append(stepLog, [id |-> id, ret |-> d.ret, setupEnv |-> d.setupEnv,
                                             ran |-> d.ran, failed |-> (d.ran /\ ~execOk),
                                             ifResult |-> EvalBool(step.If),
                                             evalBefore |-> ExprEval, evalAfter |-> ExprEval',
                                             cancelledAfter |-> cancelled])
              /\ trace' = trace \o StepOps(i, d)
              /\ Stage(d.ret, AfterStep(i))
              /\ stepIdx' = i + 1
    /\ UNCHANGED <<inputVars, fnVars, hostVars, cancelled, JobContainer, stopVars>>

\* ------------------------------------------------------- specification

Next ==
    \/ Executor
    \/ LogMatrix
    \/ StartHost
    \/ StartContainer
    \/ Pull
    \/ Create
    \/ Start
    \/ UpdateFromImageEnv
    \/ UpdateFromEnv
    \/ Exec
    \/ CopyDir
    \/ Copy
    \/ newStepExecutor
    \/ interpolateOutputs
    \/ stopJobContainer
    \/ Remove
    \/ VolumeRemove
    \/ Close
    \/ Cancel

Spec == Init /\ [][Next]_vars

\* ------------------------------------- specification of jobContainerName

\* the longest job name made of arbitrary characters
MaxLen == 3

\* the longest workflow name made of arbitrary characters
MaxWorkflowLen == 2

\* the length of the run of letters a long name begins with
LongLen == 30

\* n times the character c
Repeat(c, n) == [i \in 1..n |-> c]

\* the strings over NameChars of length at most n
Strings(n) == UNION { [1..k -> NameChars] : k \in 0..n }

\* the names of the model: every string of length at most n, and each of
\* them after a run of LongLen letters
Names(n) == { Repeat("a", p) \o s : p \in {0, LongLen}, s \in Strings(n) }

\* the workflow names
WorkflowNames == Names(MaxWorkflowLen)

\* the job names
JobNames == Names(MaxLen)

\* a run context of a job without steps whose executor is not run
IdleRunContext ==
    NewRunContext({DefaultConfig},
                  {[If |-> <<>>, Container |-> NoContainer, RunsOn |-> <<"self-hosted">>]},
                  {<<>>})

\* a run context whose workflow and job carry one of the names
InitName ==
    /\ IdleRunContext
    /\ workflowName \in WorkflowNames
    /\ jobName \in JobNames
    /\ containerName = <<>>
    /\ NoEvalCall
    /\ NoImageCall
    /\ NoEnvCall
    /\ NoTasks
    /\ NoClone
    /\ splitPattern = NilPattern

\* a call of rc.jobContainerName()
JobContainerName ==
    /\ containerName = <<>>
    /\ containerName' = jobContainerName(workflowName, jobName)
    /\ UNCHANGED <<runVars, workflowName, jobName, evalVars, imageVars, envVars, taskVars,
                   cloneVars, splitPattern>>

SpecName == InitName /\ [][JobContainerName]_vars

\* --------------------------------------------- specification of EvalBool

\* the largest number of lexemes of an expression
MaxTokens == 3

\* the lexemes of an expression
Lexemes == Tokens \cup {Blank}

\* the expressions EvalBool is called with
Expressions == UNION { [1..n -> Lexemes] : n \in 0..MaxTokens }

\* a run context and an expression EvalBool is about to be called with
InitEval ==
    /\ IdleRunContext
    /\ NoNameCall
    /\ NoImageCall
    /\ NoEnvCall
    /\ NoTasks
    /\ NoClone
    /\ splitPattern \in {NilPattern, CompiledPattern}
    /\ expr \in Expressions
    /\ evalOut = NotCalled

\* a call of rc.EvalBool(expr)
CallEvalBool ==
    /\ ~evalOut.called
    /\ LET r == EvalBoolCall(expr)
       IN  evalOut' = [called |-> TRUE, b |-> r.b, err |-> r.err,
                       evaluatedParts |-> r.evaluatedParts, calls |-> r.calls]
    /\ splitPattern' = CompiledPattern
    /\ UNCHANGED <<runVars, nameVars, expr, imageVars, envVars, taskVars, cloneVars>>

SpecEval == InitEval /\ [][CallEvalBool]_vars

\* the type of the state
TypeOK ==
    /\ pc \in {"Executor", "logMatrix", "startJobContainer", "step", "interpolateOutputs",
               "stopJobContainer", "Remove", "VolumeRemove", "Close", "done"}
              \cup {StartPipeline[k] : k \in 1..Len(StartPipeline)}
    /\ JobContainer \in {"nil", "docker", "host"}
    /\ stepIdx \in 1..(Len(Job.Steps) + 1)
    /\ cancelled \in BOOLEAN
    /\ inFinally \in BOOLEAN

\* ------------------------------------------------- reading the history

\* the positions of trace at which operation o was invoked
Positions(o) == {k \in 1..Len(trace) : trace[k].op = o}

\* how often operation o has been invoked
Count(o) == Cardinality(Positions(o))

\* the position at which the Finally stages began (interpolateOutputs runs
\* once), or past the end of trace when they have not begun
FinallyPos ==
    IF Positions("interpolateOutputs") = {} THEN Len(trace) + 1
    ELSE CHOOSE k \in Positions("interpolateOutputs") : TRUE

\* the operations that only Finally stages, the teardown and the
\* cancellation of the context put on trace
AfterwardsOps == {"interpolateOutputs", "stopJobContainer", "Remove", "VolumeRemove",
                  "Close", "cancel"}

\* the job container was set during the run and is to be removed
ContainerToRemove == JobContainer # "nil" /\ ~Config.ReuseContainers

\* the executor has returned
Done == pc = "done"

\* ------------------------------------------------------------------ C1

\* C1 as stated: when the executor has returned, a job container that was
\* set and is not reused has seen Remove() exactly once, counting the
\* stopJobContainer stage of the start pipeline and the Finally stage
C1_RemoveExactlyOnce ==
    (Done /\ ContainerToRemove) => Count("Remove") = 1

\* C1 amended: the Finally stage of the job pipeline invokes Remove() exactly
\* once; the stopJobContainer stage of the container-mode start pipeline
\* invokes it once more exactly when that stage was reached (Pull succeeded
\* and the context was not cancelled when it returned), so Remove() runs
\* once or twice
C1_RemoveOncePerTeardown ==
    (Done /\ ContainerToRemove) =>
        /\ Cardinality({k \in Positions("Remove") : k > FinallyPos}) = 1
        /\ Cardinality({k \in Positions("Remove") : k < FinallyPos})
              = Cardinality({k \in Positions("stopJobContainer") : k < FinallyPos})
        /\ Cardinality({k \in Positions("stopJobContainer") : k < FinallyPos})
              = (IF \E k \in Positions("Pull") :
                       /\ firstFailure # Err("Pull", 0)
                       /\ \A c \in Positions("cancel") : c > k
                 THEN 1 ELSE 0)
        /\ Count("Remove") \in {1, 2}

\* C1 witness: a container-mode run has returned with Remove() invoked twice
C1_Witness ==
    Done /\ ContainerToRemove /\ JobContainer = "docker" /\ Count("Remove") = 2

\* ------------------------------------------------------------------ C2

\* the entries of trace after position k
After(k) == {j \in 1..Len(trace) : j > k}

\* C2: in container mode without ReuseContainers, once Create has failed no
\* later provisioning stage and no step runs; when the executor has returned,
\* the teardown has invoked Remove() and Close() after the failure and the
\* executor returned the error of Create
C2_CreateFailure ==
    (firstFailure = Err("Create", 0) /\ ~Config.ReuseContainers) =>
        \A k \in Positions("Create") :
            /\ \A j \in After(k) : trace[j].op \in AfterwardsOps
            /\ stepLog = <<>>
            /\ Done => /\ \E j \in After(k) : j > FinallyPos /\ trace[j].op = "Remove"
                       /\ \E j \in After(k) : j > FinallyPos /\ trace[j].op = "Close"
                       /\ result = Err("Create", 0)

\* C2 witness: a run whose Create failed has returned after its teardown
C2_Witness ==
    /\ Done /\ firstFailure = Err("Create", 0) /\ ~Config.ReuseContainers
    /\ Positions("Create") # {} /\ Len(Job.Steps) > 0

\* ------------------------------------------------------------------ C3

\* the steps dispatched so far; stepLog[k] is the record of the step at
\* position k, since the steps are dispatched in order
Dispatched == 1..Len(stepLog)

\* the step at position k ran, its executor returned an error, and the step
\* declares ContinueOnError
ContinuedFailure(k) == stepLog[k].failed /\ Job.Steps[k].ContinueOnError

\* the step after position k has been dispatched or is about to be
NextStepDispatched(k) == Len(stepLog) > k \/ (pc = "step" /\ stepIdx = k + 1)

\* C3 as stated: after a failing step with ContinueOnError the dispatcher
\* returned no error, Success is true, and every subsequent step of the job
\* has been dispatched when the executor returns
C3_EveryLaterStepDispatched ==
    \A k \in Dispatched : ContinuedFailure(k) =>
        /\ stepLog[k].ret = Nil
        /\ StepResults[stepLog[k].id].Success
        /\ Done => Len(stepLog) = Len(Job.Steps)

\* C3 amended: after a failing step with ContinueOnError the dispatcher
\* returned no error, Success is true, and the next step is dispatched unless
\* the outer context was cancelled by the time the dispatcher returned
C3_ContinueOnError ==
    \A k \in Dispatched : ContinuedFailure(k) =>
        /\ stepLog[k].ret = Nil
        /\ StepResults[stepLog[k].id].Success
        /\ (k < Len(Job.Steps) /\ ~stepLog[k].cancelledAfter) => NextStepDispatched(k)

\* C3 witness: a step failed with ContinueOnError and the step after it was
\* dispatched
C3_Witness ==
    \E k \in Dispatched : ContinuedFailure(k) /\ Len(stepLog) > k /\ Done

\* ------------------------------------------------------------------ C4

\* the step at position k ran, its executor returned an error, and the step
\* does not declare ContinueOnError
FatalFailure(k) == stepLog[k].failed /\ ~Job.Steps[k].ContinueOnError

\* C4: after a failing step without ContinueOnError, Success is false, no
\* later step is dispatched, no operation other than the Finally stages and
\* the teardown follows, every Remove() after the step comes after
\* interpolateOutputs, and when the executor has returned interpolateOutputs
\* and then stopJobContainer have run and the executor returned the step's error
C4_StepFailure ==
    \A k \in Dispatched : FatalFailure(k) =>
        /\ ~StepResults[stepLog[k].id].Success
        /\ Len(stepLog) = k
        /\ stepLog[k].ret = Err("step", k)
        /\ \A x \in Positions("exec") : trace[x].n = k =>
              /\ \A j \in After(x) : trace[j].op \in AfterwardsOps
              /\ \A j \in After(x) :
                    trace[j].op \in {"stopJobContainer", "Remove", "VolumeRemove", "Close"}
                        => j > FinallyPos
              /\ Done => /\ FinallyPos > x /\ FinallyPos <= Len(trace)
                         /\ \E j \in Positions("stopJobContainer") : j > FinallyPos
                         /\ result = Err("step", k)

\* C4 witness: a step that is not the last failed without ContinueOnError
\* and the executor returned after removing the container
C4_Witness ==
    /\ Done /\ ContainerToRemove
    /\ \E k \in Dispatched : FatalFailure(k) /\ k < Len(Job.Steps)

\* ------------------------------------------------------------------ C5

\* the if: expression of the step at position k made EvalBool return an error
IfError(k) == stepLog[k].ifResult.err # Nil

\* C5: a step whose if: expression makes EvalBool return an error is marked
\* failed, the dispatcher returns a non-nil error, the step's user code does
\* not run and no subsequent step is dispatched, whether or not setupEnv
\* succeeds
C5_IfErrorFailsStep ==
    \A k \in Dispatched : IfError(k) =>
        /\ ~StepResults[stepLog[k].id].Success
        /\ stepLog[k].ret # Nil
        /\ ~stepLog[k].ran
        /\ Len(stepLog) = k

\* ------------------------------------------------------------------ C6

\* the if: expression of the step at position k evaluated to false
IfFalse(k) == stepLog[k].ifResult = [b |-> FALSE, err |-> Nil]

\* what C6 says of a skipped step itself
SkippedStepUntouched(k) ==
    /\ ~stepLog[k].ran
    /\ stepLog[k].setupEnv = "none"
    /\ stepLog[k].evalAfter = stepLog[k].evalBefore
    /\ stepLog[k].id \in DOMAIN StepResults
    /\ StepResults[stepLog[k].id] = [Success |-> TRUE, Outputs |-> EmptyMap]
    /\ stepLog[k].ret = Nil

\* C6 as stated: a step whose if: is false is left untouched and the next
\* step is dispatched; every step with an empty if: is executed
C6_SkipThenNextAndEmptyRuns ==
    \A k \in Dispatched :
        /\ IfFalse(k) =>
              /\ SkippedStepUntouched(k)
              /\ (Done /\ k < Len(Job.Steps)) => Len(stepLog) > k
        /\ Job.Steps[k].If = <<>> => stepLog[k].ran

\* C6 amended: a step whose if: is false is left untouched and the next step
\* is dispatched unless the outer context was cancelled by the time the
\* dispatcher returned; every dispatched step with an empty if: passes the
\* gate: setupEnv is called, and the step executor runs if setupEnv succeeds
C6_SkippedStep ==
    \A k \in Dispatched :
        /\ IfFalse(k) =>
              /\ SkippedStepUntouched(k)
              /\ (k < Len(Job.Steps) /\ ~stepLog[k].cancelledAfter) => NextStepDispatched(k)
        /\ Job.Steps[k].If = <<>> =>
              /\ stepLog[k].setupEnv # "none"
              /\ stepLog[k].setupEnv = "ok" => stepLog[k].ran

\* C6 witness: a step was skipped for a false if:, the step after it has an
\* empty if: and ran
C6_Witness ==
    /\ Done
    /\ \E k \in Dispatched :
          /\ IfFalse(k) /\ Len(stepLog) > k
          /\ Job.Steps[k + 1].If = <<>> /\ stepLog[k + 1].ran

\* ------------------------------------------------------------------ C7

\* the job's if: expression evaluates to true without error and the job has
\* a platform image
JobEnabled == EvalBool(Job.If) = [b |-> TRUE, err |-> Nil] /\ platformImage # ""

\* C7: once the executor has passed its guard, an enabled job runs the job
\* pipeline (and its Finally stages before it returns); a disabled job has
\* returned nil without invoking any stage, step or teardown and without
\* setting JobContainer
C7_EnabledIffPipelineRuns ==
    pc # "Executor" =>
        /\ JobEnabled =>
              /\ pc = "logMatrix" \/ Positions("logMatrix") # {}
              /\ Done => /\ Positions("interpolateOutputs") # {}
                         /\ Positions("stopJobContainer") # {}
        /\ ~JobEnabled =>
              /\ Done /\ result = Nil
              /\ JobContainer = "nil"
              /\ stepLog = <<>>
              /\ \A j \in 1..Len(trace) : trace[j].op = "cancel"

\* C7 witness: a job whose if: expression could not be evaluated has returned
C7_Witness == Done /\ EvalBool(Job.If).err # Nil /\ platformImage # ""

\* ------------------------------------------------------------------ C8

\* the stage of the job pipeline (or of the start pipeline) that put entry e
\* on trace
StageOf(e) ==
    IF e.op \in {"dispatch", "setupEnv", "exec"} THEN <<"step", e.n>>
    ELSE IF e.op \in {"stopJobContainer", "Remove", "VolumeRemove", "Close"}
    THEN <<"stopJobContainer", 0>>
    ELSE <<e.op, 0>>

\* the outer context was cancelled at position c of trace, after the job
\* container had been set, and the container is to be removed
CancelledWithContainer(c) ==
    /\ trace[c].op = "cancel"
    /\ ContainerToRemove
    /\ \E s \in Positions("startJobContainer") : s < c

\* C8: after a cancellation that follows the setting of JobContainer at most
\* the stage in progress completes before the Finally stages; the teardown
\* hands its operations a context that is not cancelled; and when the
\* executor has returned the Finally teardown has invoked Remove() and Close()
C8_CancelKeepsTeardown ==
    \A c \in 1..Len(trace) : CancelledWithContainer(c) =>
        /\ Cardinality({StageOf(trace[j]) : j \in {x \in After(c) : x < FinallyPos}}) <= 1
        /\ pc \in {"Remove", "VolumeRemove", "Close"} =>
              stopCtx = "background" /\ ~CtxCancelled(stopCtx)
        /\ Done => /\ \E j \in Positions("Remove") : j > FinallyPos
                   /\ \E j \in Positions("Close") : j > FinallyPos

\* C8 witness: the context was cancelled between two steps, the second step
\* was never dispatched and the executor returned after the teardown
C8_Witness ==
    /\ Done /\ result = CtxErr /\ Len(stepLog) = 1 /\ Len(Job.Steps) = 2
    /\ \E c \in 1..Len(trace) : CancelledWithContainer(c) /\ c < FinallyPos

\* ------------------------------------------------------------------ C9

\* C9: the derived job status is "failure" iff some step result has Success
\* false; it is "success" while the only failing steps declare
\* ContinueOnError, and "failure" once a step failed without ContinueOnError
\* or the if: expression of a step could not be evaluated
C9_JobStatus ==
    /\ getJobContext = "failure" <=> \E id \in DOMAIN StepResults : ~StepResults[id].Success
    /\ getJobContext # "failure" => getJobContext = "success"
    /\ (\A k \in Dispatched : ~FatalFailure(k) /\ ~IfError(k)) => getJobContext = "success"
    /\ (\E k \in Dispatched : FatalFailure(k) \/ IfError(k)) => getJobContext = "failure"

\* ------------------------------------------------------------------ C10

\* C10: in a run whose context is never cancelled the executor returns the
\* error of the first failing provisioning stage or step, and nil when there
\* is none, whatever the teardown operations returned
C10_TeardownNeverPropagates ==
    (Done /\ ~cancelled) => result = firstFailure

\* ------------------------------------------------------------------ C11

\* jobContainerName has been called
Named == containerName # <<>>

\* s matches ^[A-Za-z0-9]+(-[A-Za-z0-9]+)*$: letters, digits and '-' only,
\* no '-' at either end and no "--"
WellFormedName(s) ==
    /\ s # <<>>
    /\ \A i \in 1..Len(s) : s[i] \in Alnum \cup {"-"}
    /\ s[1] # "-"
    /\ s[Len(s)] # "-"
    /\ \A i \in 1..(Len(s) - 1) : ~(s[i] = "-" /\ s[i + 1] = "-")

\* C11 as stated: for every workflow name and job name the job container
\* name matches ^[A-Za-z0-9]+(-[A-Za-z0-9]+)*$
C11_NameWellFormed == Named => WellFormedName(containerName)

\* ------------------------------------------------------------------ C12

\* the part of the container name that is derived from "<workflow>/<job>":
\* what follows the prefix "act-"
UserContent(s) == SubSeq(s, Len(ActPrefix) + 2, Len(s))

EndsWith(s, t) == Len(s) >= Len(t) /\ SubSeq(s, Len(s) - Len(t) + 1, Len(s)) = t

\* the job name j ends with a matrix suffix -<digits>
HasMatrixSuffix(j) == FindMatrixSuffix(j) # <<>>

\* the matrix suffix of the job name j
MatrixSuffix(j) == FindMatrixSuffix(j)[1]

\* the job names of the model that carry a matrix suffix other than that of j
OtherMatrixJobs(j) ==
    {j2 \in JobNames : HasMatrixSuffix(j2) /\ MatrixSuffix(j2) # MatrixSuffix(j)}

\* C13: when the job name ends with a matrix suffix -<digits>, the job
\* container name ends with that same suffix, however long the names are, and
\* no job of the same workflow with another matrix suffix gets the same name
C13_MatrixSuffixKept ==
    (Named /\ HasMatrixSuffix(jobName)) =>
        /\ EndsWith(containerName, MatrixSuffix(jobName))
        /\ HasMatrixSuffix(containerName)
        /\ MatrixSuffix(containerName) = MatrixSuffix(jobName)
        /\ \A j2 \in OtherMatrixJobs(jobName) :
              jobContainerName(workflowName, j2) # containerName

\* C13 witness: a long job name with a matrix suffix has got its container
\* name, in a workflow with a long name that has jobs with other suffixes
C13_Witness ==
    /\ Named /\ HasMatrixSuffix(jobName)
    /\ Len(jobName) > NameLen /\ Len(workflowName) > NameLen
    /\ OtherMatrixJobs(jobName) # {}

\* ------------------------------------------------------------------ C14

\* the start stage of the HostExecutor mode has set the handle
HostStarted == JobContainer = "host"

\* m[k] is v
Holds(m, k, v) == k \in DOMAIN m /\ m[k] = v

\* C14 as stated: after the start stage of the HostExecutor mode, whatever
\* the host environment, Local is true, the handle is a HostExecutor, no
\* handle was made by NewContainer, and RUNNER_OS, RUNNER_TOOL_CACHE and
\* RUNNER_TEMP hold the host OS identifier and the values the engine computed
C14_HostStart ==
    HostStarted =>
        /\ Local
        /\ newContainers = 0
        /\ Holds(Env, <<"RUNNER_OS">>, GOOS)
        /\ Holds(Env, <<"RUNNER_TOOL_CACHE">>, ToolCache)
        /\ Holds(Env, <<"RUNNER_TEMP">>, TempDir)

\* ------------------------------------------------------------------ C15

\* the job runs in the HostExecutor mode
HostMode == isEnabled /\ platformImage = "-self-hosted"

\* C15 as stated: in the HostExecutor mode without ReuseContainers, when the
\* executor has returned no directory of the scratch tree exists any more
C15_ScratchReleased ==
    (Done /\ HostMode /\ ~Config.ReuseContainers) => scratch = {}

\* ------------------------------------------------------------------ C16

\* the provisioning stages in the order the claim gives them; CopyDir is a
\* stage only when the workspace is copied
ProvisioningOrder ==
    <<"Pull", "stopJobContainer", "Create", "Start", "UpdateFromImageEnv", "UpdateFromEnv",
      "Exec">> \o (IF copyWorkspace THEN <<"CopyDir">> ELSE <<>>) \o <<"Copy">>

\* the names of the provisioning stages
ProvisioningStages ==
    {"Pull", "stopJobContainer", "Create", "Start", "UpdateFromImageEnv", "UpdateFromEnv",
     "Exec", "CopyDir", "Copy"}

\* the provisioning stages that have been invoked, in the order of their
\* invocation: the entries of trace before the Finally stages
Provisioned ==
    LET before == SubSeq(trace, 1, FinallyPos - 1)
        stages == SelectSeq(before, LAMBDA e : e.op \in ProvisioningStages)
    IN  [k \in 1..Len(stages) |-> stages[k].op]

\* a provisioning stage (other than the stopJobContainer stage) has failed
ProvisioningFailed == firstFailure.kind \in ProvisioningStages

\* what the stopJobContainer stage can return to the start pipeline
StopStageErrors == {Err("Remove", 0), Err("VolumeRemove", 0)}

\* a step has been dispatched or is about to be
StepReached == stepLog # <<>> \/ pc = "step"

\* C16: in container mode the provisioning stages are invoked in the order
\* Pull, stopJobContainer, Create, Start, UpdateFromImageEnv, UpdateFromEnv,
\* Exec, CopyDir (when the workspace is copied), Copy; a stage runs only
\* while no earlier stage has failed; the first failure is what the start
\* stage (and so the pipeline) returns; no step is reached unless Copy ran
\* and succeeded
C16_ProvisioningOrder ==
    JobContainer = "docker" =>
        LET ran   == Provisioned
            order == ProvisioningOrder
            n     == Len(ran)
        IN  /\ n <= Len(order)
            /\ ran = SubSeq(order, 1, n)
            /\ (pc \in ProvisioningStages /\ ~inFinally) =>
                  /\ err = Nil /\ firstFailure = Nil
                  /\ (pc # "CopyDir" \/ copyWorkspace) => pc = order[n + 1]
            /\ ProvisioningFailed =>
                  /\ firstFailure = Err(ran[n], 0)
                  /\ stepLog = <<>>
                  /\ inFinally /\ err = firstFailure
                  /\ Done => result = firstFailure
            /\ (inFinally /\ stepLog = <<>> /\ n < Len(order)) =>
                  \/ err = Err(ran[n], 0)
                  \/ err = CtxErr /\ cancelled
                  \/ ran[n] = "stopJobContainer" /\ err \in StopStageErrors
            /\ StepReached =>
                  /\ n = Len(order)
                  /\ ran[n] = "Copy"
                  /\ ~ProvisioningFailed

\* C16 witness: a container-mode run that copies the workspace has invoked
\* all nine stages, dispatched a step and returned
C16_Witness ==
    /\ Done /\ JobContainer = "docker" /\ copyWorkspace
    /\ Len(Provisioned) = 9 /\ stepLog # <<>>

\* ------------------------------------------------------------------ C17

\* trace without the cancellations of the outer context
Invoked == SelectSeq(trace, LAMBDA e : e.op # "cancel")

\* the operations of a teardown
TeardownOps == {"Remove", "VolumeRemove", "Close"}

\* the executions of stopJobContainer: their positions in the sequence of
\* invocations inv
Teardowns(inv) == {k \in 1..Len(inv) : inv[k].op = "stopJobContainer"}

\* the operations the execution of stopJobContainer at position k of inv has
\* invoked, in order
TeardownOf(inv, k) ==
    LET last == CHOOSE j \in k..Len(inv) :
                    /\ \A i \in (k + 1)..j : inv[i].op \in TeardownOps
                    /\ j = Len(inv) \/ inv[j + 1].op \notin TeardownOps
    IN  [i \in 1..(last - k) |-> inv[k + i].op]

\* the execution of stopJobContainer at position k of inv has returned
Returned(inv, k) ==
    \/ \E j \in (k + 1)..Len(inv) : inv[j].op = "stopJobContainer"
    \/ pc \notin {"Remove", "VolumeRemove", "Close"}

\* the execution of stopJobContainer at position k of inv is the latest
Latest(inv, k) == \A j \in (k + 1)..Len(inv) : inv[j].op # "stopJobContainer"

\* s is an initial part of t
IsPrefix(s, t) == Len(s) <= Len(t) /\ s = SubSeq(t, 1, Len(s))

\* what holds of the teardown td at position k of inv whichever reading of
\* the volume-remove is taken: Remove() first, no volume-remove for a
\* HostExecutor, Close() last and in every teardown, and nothing at all when
\* JobContainer is unset or ReuseContainers is set
TeardownShape(inv, k, td) ==
    IF JobContainer # "nil" /\ ~Config.ReuseContainers
    THEN /\ \/ IsPrefix(td, <<"Remove", "VolumeRemove", "Close">>)
            \/ IsPrefix(td, <<"Remove", "Close">>)
         /\ JobContainer = "host" => IsPrefix(td, <<"Remove", "Close">>)
         /\ Returned(inv, k) => td # <<>> /\ td[1] = "Remove" /\ td[Len(td)] = "Close"
    ELSE /\ td = <<>>
         /\ Returned(inv, k)
         /\ (k = Len(inv) /\ stepLog = <<>> /\ ~Done /\ ~inFinally) => err = Nil

\* C17 as stated: every teardown with JobContainer set and ReuseContainers
\* false runs Remove(), then the volume-remove iff the handle is no
\* HostExecutor (also when Remove() fails), then Close(); otherwise
\* stopJobContainer invokes none of them and returns success
C17_VolumeRemoveInEveryTeardown ==
    LET inv == Invoked
    IN  \A k \in Teardowns(inv) :
            LET td == TeardownOf(inv, k)
            IN  /\ TeardownShape(inv, k, td)
                /\ (JobContainer = "docker" /\ ~Config.ReuseContainers /\ Returned(inv, k)) =>
                      td = <<"Remove", "VolumeRemove", "Close">>

\* C17 amended: every teardown with JobContainer set and ReuseContainers
\* false runs Remove() first and Close() last, whatever Remove() and the
\* volume-remove returned; the volume-remove is invoked between them iff the
\* handle is no HostExecutor and Remove() succeeded; otherwise
\* stopJobContainer invokes none of them and returns success
C17_TeardownOrder ==
    LET inv == Invoked
    IN  \A k \in Teardowns(inv) :
            LET td == TeardownOf(inv, k)
            IN  /\ TeardownShape(inv, k, td)
                /\ (JobContainer # "nil" /\ ~Config.ReuseContainers /\ pc = "Close"
                    /\ Latest(inv, k)) =>
                      /\ td = <<"Remove", "VolumeRemove">>
                            <=> (JobContainer = "docker" /\ stopErr # Err("Remove", 0))
                      /\ td = <<"Remove">>
                            <=> (JobContainer = "host" \/ stopErr = Err("Remove", 0))

\* C17 witness: a container-mode run has returned after a teardown whose
\* Remove() failed, which went on to Close() without the volume-remove, and
\* after a teardown that invoked all three
C17_Witness ==
    /\ Done /\ JobContainer = "docker" /\ ~Config.ReuseContainers
    /\ \E k \in Teardowns(Invoked) : TeardownOf(Invoked, k) = <<"Remove", "Close">>
    /\ \E k \in Teardowns(Invoked) :
          TeardownOf(Invoked, k) = <<"Remove", "VolumeRemove", "Close">>

\* ------------------------------------------------------------------ C18

\* container.NewContainer was called and returned a nil handle
NilHandle == newContainers > 0 /\ JobContainer = "nil"

\* the error of startJobContainer for a nil handle
FailedToCreate == Err("Failed to create Container", 0)

\* C18: when NewContainer returns a nil handle the start stage fails with its
\* fatal error before any provisioning stage is invoked, no step is
\* dispatched, the teardown stage runs without invoking Remove(), the
\* volume-remove or Close() and without failing, and the executor returns
\* that error
C18_NilHandleFatal ==
    NilHandle =>
        /\ firstFailure = FailedToCreate
        /\ \A k \in 1..Len(trace) :
              trace[k].op \notin (ProvisioningStages \ {"stopJobContainer"}) \cup TeardownOps
        /\ stepLog = <<>> /\ pc # "step"
        /\ \A k \in Positions("stopJobContainer") : k > FinallyPos
        /\ inFinally /\ err = FailedToCreate
        /\ Done => result = FailedToCreate /\ Count("stopJobContainer") = 1

\* C18 witness: a job with steps whose NewContainer returned nil has returned
C18_Witness == Done /\ NilHandle /\ Len(Job.Steps) > 0 /\ ~Config.ReuseContainers

\* ------------------------------------------------------------------ C19

\* the first lexeme of expr that is not white space begins with '!'
FirstCharIsBang ==
    \E i \in 1..Len(expr) :
        /\ expr[i] \in {"!cancelled()", "!="}
        /\ \A j \in 1..(i - 1) : expr[j] = " "

\* the calls of Evaluate among the calls of the evaluator
EvaluateCalls == SelectSeq(evalOut.calls, LAMBDA c : c.fn = "Evaluate")

\* C19: EvalBool returns (true, nil) for the empty expression and (false,
\* an error) for an expression whose first non-blank character is '!', both
\* without a call of the evaluator; for every other expression it calls
\* Evaluate once, last, on the re-joined tokens, returns the evaluator's
\* error (and false) if there is one, and otherwise true iff the evaluator's
\* result is the text "true"
C19_EvalBoolCases ==
    evalOut.called =>
        IF expr = <<>>
        THEN evalOut.b /\ evalOut.err = Nil /\ evalOut.calls = <<>>
        ELSE IF FirstCharIsBang
        THEN ~evalOut.b /\ evalOut.err # Nil /\ evalOut.calls = <<>>
        ELSE /\ Len(EvaluateCalls) = 1
             /\ evalOut.calls[Len(evalOut.calls)] = EvaluateCalls[1]
             /\ EvaluateCalls[1].arg = evalOut.evaluatedParts
             /\ Len(evalOut.evaluatedParts)
                   = Cardinality({i \in 1..Len(expr) : expr[i] # " "})
             /\ LET r == Evaluate(EvaluateCalls[1].arg)
                IN  IF r.err # Nil THEN ~evalOut.b /\ evalOut.err = r.err
                    ELSE evalOut.err = Nil /\ (evalOut.b <=> r.v = "true")

\* C19 witness: EvalBool has been called with white space followed by a
\* token that begins with '!'
C19_Witness ==
    /\ evalOut.called /\ Len(expr) >= 2
    /\ expr[1] = " " /\ FirstCharIsBang

\* ------------------------------------------------------------------ C20

\* the tokens of expr, in order
PartsOf == SelectSeq(expr, LAMBDA p : p # " ")

\* the token i of parts has an operator right before or right after it
OperatorBeside(i, parts) ==
    \/ i > 1 /\ IsOperator(parts[i - 1])
    \/ i < Len(parts) /\ IsOperator(parts[i + 1])

\* the quoting rule for token i of parts
MustQuote(i, parts) ==
    LET r == InterpolateWithStringCheck(parts[i])
    IN  /\ IsExpression(parts[i])
        /\ ~ContainsBang(parts[i])
        /\ r.s = "false"
        /\ (r.isString \/ OperatorBeside(i, parts))

\* EvalBool got past its first two checks and evaluated the tokens of expr
Tokenised == evalOut.called /\ expr # <<>> /\ ~FirstCharIsBang

\* C20: an operator token is passed through unchanged and never interpolated;
\* every other token is interpolated, and its interpolation is wrapped in
\* single quotes iff the token is an expression block, is not negated,
\* interpolates to "false" and was typed as string or has an operator right
\* before or after it; env.FLAG == 'false' with env.FLAG the string "false"
\* gates to true
C20_QuotingRule ==
    Tokenised =>
        LET parts == PartsOf
            ev    == evalOut.evaluatedParts
        IN  /\ Len(ev) = Len(parts)
            /\ \A i \in 1..Len(parts) :
                  LET interpolated ==
                          \E k \in 1..Len(evalOut.calls) :
                              /\ evalOut.calls[k].fn = "InterpolateWithStringCheck"
                              /\ evalOut.calls[k].i = i
                              /\ evalOut.calls[k].arg = <<parts[i]>>
                  IN  IF IsOperator(parts[i])
                      THEN ev[i] = parts[i] /\ ~interpolated
                      ELSE /\ interpolated
                           /\ IF MustQuote(i, parts)
                              THEN ev[i] = "'false'"
                              ELSE ev[i] = InterpolateWithStringCheck(parts[i]).s
            /\ expr \in {<<"env.FLAG", "==", "'false'">>,
                         <<"${{ env.FLAG }}", "==", "'false'">>} =>
                  evalOut.b /\ evalOut.err = Nil

\* C20 witness: EvalBool has quoted a token that was not typed as string
\* because an operator follows it, and passed that operator through
C20_Witness ==
    /\ Tokenised
    /\ expr = <<"${{ false }}", "==", "'false'">>
    /\ evalOut.evaluatedParts = <<"'false'", "==", "'false'">>
    /\ evalOut.b

\* ------------------------------------------------ withGithubEnv: ImageOS

\* the longest runs-on label of the model, in characters
MaxLabelLen == 2

\* the longest runs-on list of the model
MaxLabels == 2

\* the characters of the runs-on labels: a letter, the hyphen and the dot
LabelChars == {"a", "-", "."}

\* the label "ubuntu-latest"
UbuntuLatest == <<"u", "b", "u", "n", "t", "u", "-", "l", "a", "t", "e", "s", "t">>

\* the value "ubuntu20"
Ubuntu20 == <<"u", "b", "u", "n", "t", "u", "2", "0">>

\* a label that is an expression over a matrix key the matrix does not have
UnsetMatrixLabel == <<"${{ matrix.none }}">>

\* the runs-on labels of the model
Labels ==
    UNION { [1..k -> LabelChars] : k \in 0..MaxLabelLen }
        \cup {UbuntuLatest, UnsetMatrixLabel}

\* the runs-on lists of the model
RunsOnLists == UNION { [1..k -> Labels] : k \in 0..MaxLabels }

\* rc.ExprEval.Interpolate(runnerLabel): an expression over an unset matrix
\* key gives the empty string, text without an expression is kept
InterpolateLabel(l) == IF l = UnsetMatrixLabel THEN <<>> ELSE l

\* the position of the first c in s at or after from; 0 when there is none
RECURSIVE FirstIndex(_, _, _)
FirstIndex(s, c, from) ==
    IF from > Len(s) THEN 0
    ELSE IF s[from] = c THEN from
    ELSE FirstIndex(s, c, from + 1)

\* strings.Replace(s, "-", "", 1): s without its first hyphen
ReplaceFirstHyphen(s) ==
    LET i == FirstIndex(s, "-", 1)
    IN  IF i = 0 THEN s ELSE SubSeq(s, 1, i - 1) \o SubSeq(s, i + 1, Len(s))

\* strings.SplitN(s, ".", 2)[0]: s before its first dot
BeforeFirstDot(s) ==
    LET i == FirstIndex(s, ".", 1)
    IN  IF i = 0 THEN s ELSE SubSeq(s, 1, i - 1)

\* what the body of the loop assigns to env["ImageOS"] for a platform name
\* that is not empty
ImageOSOf(platformName) ==
    IF platformName = UbuntuLatest THEN Ubuntu20
    ELSE BeforeFirstDot(ReplaceFirstHyphen(platformName))

\* env["ImageOS"] is not set
NoImageOS == [set |-> FALSE, ImageOS |-> <<>>]

\* the loop of withGithubEnv over job.RunsOn(), from label i on, with os
\* the state of env["ImageOS"] so far: every label whose interpolation is
\* not empty assigns env["ImageOS"], and the loop goes on to the next label
RECURSIVE ImageOSLoop(_, _, _)
ImageOSLoop(labels, i, os) ==
    IF i > Len(labels) THEN os
    ELSE LET platformName == InterpolateLabel(labels[i])
         IN  ImageOSLoop(labels, i + 1,
                         IF platformName # <<>>
                         THEN [set |-> TRUE, ImageOS |-> ImageOSOf(platformName)]
                         ELSE os)

\* env["ImageOS"] after rc.withGithubEnv(env) on an env without ImageOS
withGithubEnv(labels) == ImageOSLoop(labels, 1, NoImageOS)

\* a run context whose job carries one of the runs-on lists
InitImageOS ==
    /\ IdleRunContext
    /\ NoNameCall
    /\ NoEvalCall
    /\ NoEnvCall
    /\ NoTasks
    /\ NoClone
    /\ splitPattern = NilPattern
    /\ runsOn \in RunsOnLists
    /\ githubEnv = NotCalled

\* a call of rc.withGithubEnv(env)
WithGithubEnv ==
    /\ ~githubEnv.called
    /\ LET os == withGithubEnv(runsOn)
       IN  githubEnv' = [called |-> TRUE, set |-> os.set, ImageOS |-> os.ImageOS]
    /\ UNCHANGED <<runVars, nameVars, evalVars, envVars, taskVars, cloneVars, splitPattern,
                   runsOn>>

SpecImageOS == InitImageOS /\ [][WithGithubEnv]_vars

\* ------------------------------------------------------------------ GetEnv

\* how many calls of GetEnv the model follows
MaxCalls == 2

\* the keys of the environments of the model
EnvKeys == {<<"ACT">>, <<"K">>}

\* the value GetEnv writes for ACT
TrueValue == <<"true">>

\* the values a configured environment or a write gives a key, by the place
\* it comes from: Config.Env, the workflow, the job, a write between calls
EnvValues == <<<<"config">>, <<"workflow">>, <<"job">>>>

\* the value a write between two calls of GetEnv gives a key
WrittenValue == <<"written">>

\* the environments one level can configure: any of the keys, with the
\* value of that level
LevelEnvs(v) == UNION { [ks -> {v}] : ks \in SUBSET EnvKeys }

\* the loop of mergeMaps over the maps from position i on: every key of a
\* map is assigned to rtnMap, so that a later map overwrites an earlier one
RECURSIVE mergeFrom(_, _, _)
mergeFrom(maps, i, rtnMap) ==
    IF i > Len(maps) THEN rtnMap
    ELSE mergeFrom(maps, i + 1,
                   [k \in DOMAIN rtnMap \cup DOMAIN maps[i] |->
                       IF k \in DOMAIN maps[i] THEN maps[i][k] ELSE rtnMap[k]])

\* a merge in which the first map that has a key keeps it
mergeMaps_FirstWins(maps) ==
    mergeFrom([i \in 1..Len(maps) |-> maps[Len(maps) + 1 - i]], 1, EmptyMap)

\* mergeMaps(maps...)
mergeMaps(maps) == mergeFrom(maps, 1, EmptyMap)

\* a run context with nil Env whose Config, workflow and job configure
\* environments
InitEnv ==
    /\ IdleRunContext
    /\ NoNameCall
    /\ NoEvalCall
    /\ NoImageCall
    /\ NoTasks
    /\ NoClone
    /\ splitPattern = NilPattern
    /\ envIsNil = TRUE
    /\ envLevels \in LevelEnvs(EnvValues[1]) \X LevelEnvs(EnvValues[2]) \X LevelEnvs(EnvValues[3])
    /\ getEnvLog = [calls |-> 0, merges |-> 0]

\* a call of rc.GetEnv()
GetEnv ==
    /\ getEnvLog.calls < MaxCalls
    /\ LET env == IF envIsNil THEN mergeMaps(envLevels) ELSE Env
       IN  /\ Env' = Put(env, <<"ACT">>, TrueValue)
           /\ getEnvLog' = [calls  |-> getEnvLog.calls + 1,
                            merges |-> getEnvLog.merges + (IF envIsNil THEN 1 ELSE 0),
                            wasNil |-> envIsNil,
                            before |-> Env,
                            after  |-> Put(env, <<"ACT">>, TrueValue)]
    /\ envIsNil' = FALSE
    /\ UNCHANGED <<inputVars, Local, scratch, newContainers, pc, stepIdx, cancelled,
                   JobContainer, stepVars, err, inFinally, stopVars, result, trace,
                   firstFailure, nameVars, evalVars, imageVars, taskVars, cloneVars,
                   splitPattern, envLevels>>

\* a write rc.Env[k] = v between two calls of GetEnv (a write to a nil map
\* panics: the code writes only after a call of GetEnv)
WriteEnv ==
    /\ ~envIsNil
    /\ \E k \in EnvKeys \cup {<<"W">>} : Env' = Put(Env, k, WrittenValue)
    /\ UNCHANGED <<inputVars, Local, scratch, newContainers, pc, stepIdx, cancelled,
                   JobContainer, stepVars, err, inFinally, stopVars, result, trace,
                   firstFailure, nameVars, evalVars, imageVars, taskVars, cloneVars,
                   splitPattern, envVars>>

NextEnv == GetEnv \/ WriteEnv

SpecEnv == InitEnv /\ [][NextEnv]_vars

\* ------------------------------------------------- parallel run contexts

\* how many run contexts run in parallel tasks
NumTasks == 2

\* the tasks
Tasks == 1..NumTasks

\* what a read of Config.ContainerDaemonSocket can return besides a value
\* that was assigned, while another task assigns the field: the two words of
\* a string are not written together
TornSocket == "<torn>"

\* the daemon sockets of the configurations of the parallel run contexts
DaemonSockets == {"", CustomSocket}

\* the stages of a job in which the task of a run context reads or writes
\* what it shares with the other tasks are, in the order the executor
\* reaches them: isEnabled, which calls EvalBool; startJobContainer, which
\* calls GetBindsAndMounts; a step, whose if: calls EvalBool

\* the first statement of a stage
FirstStatement(stage) ==
    CASE stage = "isEnabled"         -> "EvalBool"
      [] stage = "startJobContainer" -> "GetBindsAndMounts"
      [] stage = "step"              -> "EvalBool"
      [] OTHER                       -> "done"

\* the stage after a stage
NextStage(stage) ==
    CASE stage = "isEnabled"         -> "startJobContainer"
      [] stage = "startJobContainer" -> "step"
      [] OTHER                       -> "done"

\* task t is at statement at
At(t, at) == tasks[t].at = at

\* task t goes on to statement at of its stage
Goto(t, at) == tasks' = [tasks EXCEPT ![t].at = at]

\* task t has finished its stage
Finish(t) ==
    LET stage == NextStage(tasks[t].stage)
    IN  tasks' = [tasks EXCEPT ![t] = [stage |-> stage, at |-> FirstStatement(stage)]]

\* some task other than t is at statement at
OtherAt(t, at) == \E o \in Tasks \ {t} : At(o, at)

\* what a read of splitPattern by task t can return: the value of the
\* variable, or the value another task is assigning without synchronisation
ReadPattern(t) ==
    {splitPattern} \cup (IF OtherAt(t, "compile") THEN {CompiledPattern} ELSE {})

\* what a read of Config.ContainerDaemonSocket by task t can return: the
\* value of the field, or, while another task is assigning it without
\* synchronisation, the assigned value or a torn string
ReadSocket(t) ==
    {Config.ContainerDaemonSocket}
        \cup (IF OtherAt(t, "setSocket") THEN {DefaultSocket, TornSocket} ELSE {})

\* run contexts of jobs that run in containers, one per task, that share one
\* Config
InitParallel ==
    /\ NewRunContext({[DefaultConfig EXCEPT !.ContainerDaemonSocket = s] : s \in DaemonSockets},
                     {[If |-> <<>>, Container |-> NoContainer, RunsOn |-> <<"ubuntu-latest">>]},
                     {<<>>})
    /\ NoNameCall
    /\ NoEvalCall
    /\ NoImageCall
    /\ NoEnvCall
    /\ NoClone
    /\ splitPattern \in {NilPattern, CompiledPattern}
    /\ tasks = [t \in Tasks |-> [stage |-> "isEnabled", at |-> "EvalBool"]]
    /\ binds = [t \in Tasks |-> ""]
    /\ patternWrites = 0
    /\ configWrites = 0

\* what the steps of the parallel tasks leave alone
TaskFrame ==
    UNCHANGED <<Job, hostVars, pc, stepIdx, cancelled, JobContainer, stepVars, err,
                inFinally, stopVars, result, trace, firstFailure, nameVars, evalVars,
                imageVars, envVars, cloneVars>>

\* EvalBool in task t: if splitPattern == nil
CheckPattern(t) ==
    /\ At(t, "EvalBool")
    /\ \E seen \in ReadPattern(t) :
          Goto(t, IF seen = NilPattern THEN "compile" ELSE "FindAllString")
    /\ UNCHANGED <<Config, splitPattern, binds, patternWrites, configWrites>>
    /\ TaskFrame

\* EvalBool in task t: splitPattern = regexp.MustCompile(...)
CompilePattern(t) ==
    /\ At(t, "compile")
    /\ splitPattern' = CompiledPattern
    /\ patternWrites' = patternWrites + 1
    /\ Goto(t, "FindAllString")
    /\ UNCHANGED <<Config, binds, configWrites>>
    /\ TaskFrame

\* EvalBool in task t: splitPattern.FindAllString(expr, -1) and the rest of
\* the call, which ends the stage
FindAllStringInTask(t) ==
    /\ At(t, "FindAllString")
    /\ Finish(t)
    /\ UNCHANGED <<Config, splitPattern, binds, patternWrites, configWrites>>
    /\ TaskFrame

\* GetBindsAndMounts in task t: if rc.Config.ContainerDaemonSocket == ""
CheckSocket(t) ==
    /\ At(t, "GetBindsAndMounts")
    /\ \E seen \in ReadSocket(t) : Goto(t, IF seen = "" THEN "setSocket" ELSE "Sprintf")
    /\ UNCHANGED <<Config, splitPattern, binds, patternWrites, configWrites>>
    /\ TaskFrame

\* GetBindsAndMounts in task t:
\* rc.Config.ContainerDaemonSocket = "/var/run/docker.sock"
SetSocket(t) ==
    /\ At(t, "setSocket")
    /\ Config' = [Config EXCEPT !.ContainerDaemonSocket = DefaultSocket]
    /\ configWrites' = configWrites + 1
    /\ Goto(t, "Sprintf")
    /\ UNCHANGED <<splitPattern, binds, patternWrites>>
    /\ TaskFrame

\* GetBindsAndMounts in task t: binds holds
\* fmt.Sprintf("%s:%s", rc.Config.ContainerDaemonSocket, ...); the rest of
\* the start of the container ends the stage
SprintfBinds(t) ==
    /\ At(t, "Sprintf")
    /\ \E seen \in ReadSocket(t) : binds' = [binds EXCEPT ![t] = seen]
    /\ Finish(t)
    /\ UNCHANGED <<Config, splitPattern, patternWrites, configWrites>>
    /\ TaskFrame

NextParallel ==
    \E t \in Tasks :
        \/ CheckPattern(t)
        \/ CompilePattern(t)
        \/ FindAllStringInTask(t)
        \/ CheckSocket(t)
        \/ SetSocket(t)
        \/ SprintfBinds(t)

SpecParallel == InitParallel /\ [][NextParallel]_vars

\* ------------------------------------------------------------------ Clone

\* how many maps the run contexts of the model allocate at most
MaxMaps == 4

\* a nil map
NilRef == 0

\* the ids of the steps of the composite action
CompositeStepIDs == {"s1", "s2"}

\* the fields Clone() resets, with their zero values
ZeroFields ==
    [CurrentStep |-> "", ActionPath |-> "", ActionRef |-> "", ActionRepository |-> "",
     Composite |-> "nil", Inputs |-> "nil", StepResults |-> NilRef]

\* a run context before it is cloned: whether it runs an action (ActionPath,
\* ActionRef, ActionRepository, Composite and Inputs set), its current step,
\* and the references of its StepResults and Env
OriginalRc(action, step, results, env) ==
    [Name |-> "job", Config |-> "config#1", Run |-> "run#1", JobContainer |-> "docker",
     Env |-> env, CurrentStep |-> step, StepResults |-> results,
     ActionPath |-> IF action THEN "path" ELSE "",
     ActionRef |-> IF action THEN "v1" ELSE "",
     ActionRepository |-> IF action THEN "owner/repo" ELSE "",
     Composite |-> IF action THEN "action#1" ELSE "nil",
     Inputs |-> IF action THEN "inputs#1" ELSE "nil",
     Parent |-> "nil"]

\* the StepResults maps a run context has before it is cloned
OriginalStepResults ==
    {EmptyMap, [id \in {"s1"} |-> [Success |-> TRUE]], [id \in {"s1"} |-> [Success |-> FALSE]]}

\* the Env map a run context has before it is cloned
OriginalEnv == [k \in {"K"} |-> "parent"]

\* a Clone() that keeps the StepResults of the original
Clone_KeepStepResults(rc, self) ==
    [rc EXCEPT !.CurrentStep = "", !.ActionPath = "", !.ActionRef = "",
               !.ActionRepository = "", !.Composite = "nil", !.Inputs = "nil",
               !.Parent = self]

\* rc.Clone(), rc being the run context with id self: a copy of every field,
\* seven of them reset, Parent pointing to rc
Clone(rc, self) ==
    [rc EXCEPT !.CurrentStep = "", !.ActionPath = "", !.ActionRef = "",
               !.ActionRepository = "", !.Composite = "nil", !.Inputs = "nil",
               !.StepResults = NilRef, !.Parent = self]

\* a run context with or without StepResults and Env, not cloned yet
InitClone ==
    /\ IdleRunContext
    /\ NoNameCall
    /\ NoEvalCall
    /\ NoImageCall
    /\ NoEnvCall
    /\ NoTasks
    /\ splitPattern = NilPattern
    /\ \E action \in BOOLEAN, step \in {"", "s1"}, hasResults, hasEnv \in BOOLEAN,
          results \in OriginalStepResults :
          LET maps == (IF hasResults THEN <<results>> ELSE <<>>)
                          \o (IF hasEnv THEN <<OriginalEnv>> ELSE <<>>)
          IN  /\ heap = maps
              /\ rcs = [id \in {"parent"} |->
                          OriginalRc(action, step,
                                     IF hasResults THEN 1 ELSE NilRef,
                                     IF hasEnv THEN Len(maps) ELSE NilRef)]

\* the run context has been cloned
Cloned == "clone" \in DOMAIN rcs

\* what the operations on the run contexts leave alone
CloneFrame ==
    UNCHANGED <<runVars, nameVars, evalVars, imageVars, envVars, taskVars, splitPattern>>

\* clone := parent.Clone()
CallClone ==
    /\ ~Cloned
    /\ rcs' = [id \in {"parent", "clone"} |->
                 IF id = "parent" THEN rcs["parent"] ELSE Clone(rcs["parent"], "parent")]
    /\ UNCHANGED heap
    /\ CloneFrame

\* a step of the composite action dispatched on the clone: newStepExecutor
\* sets CurrentStep and records the result of the step in
\* *rc.getStepsContext(), which makes the map when StepResults is nil
CompositeStep ==
    /\ Cloned
    /\ \E id \in CompositeStepIDs, ok \in BOOLEAN :
          LET c     == rcs["clone"]
              fresh == c.StepResults = NilRef
              ref   == IF fresh THEN Len(heap) + 1 ELSE c.StepResults
              maps  == IF fresh THEN Append(heap, EmptyMap) ELSE heap
          IN  /\ fresh => Len(heap) < MaxMaps
              /\ heap' = [maps EXCEPT ![ref] = Put(@, id, [Success |-> ok])]
              /\ rcs' = [rcs EXCEPT !["clone"].CurrentStep = id,
                                    !["clone"].StepResults = ref]
    /\ CloneFrame

\* clone.GetEnv(): a nil Env becomes the merged map, and ACT is written to
\* the map Env refers to
GetEnvOfClone ==
    /\ Cloned
    /\ LET c     == rcs["clone"]
           fresh == c.Env = NilRef
           ref   == IF fresh THEN Len(heap) + 1 ELSE c.Env
           maps  == IF fresh THEN Append(heap, [k \in {"K"} |-> "merged"]) ELSE heap
       IN  /\ fresh => Len(heap) < MaxMaps
           /\ heap' = [maps EXCEPT ![ref] = Put(@, "ACT", "true")]
           /\ rcs' = [rcs EXCEPT !["clone"].Env = ref]
    /\ CloneFrame

\* the clone is given an Env of its own: clone.Env = a new map
AssignEnv ==
    /\ Cloned
    /\ Len(heap) < MaxMaps
    /\ heap' = Append(heap, [k \in {"K"} |-> "clone"])
    /\ rcs' = [rcs EXCEPT !["clone"].Env = Len(heap) + 1]
    /\ CloneFrame

\* a write clone.Env[k] = v to the map the clone refers to
WriteEnvOfClone ==
    /\ Cloned
    /\ rcs["clone"].Env # NilRef
    /\ heap' = [heap EXCEPT ![rcs["clone"].Env] = Put(@, "K", "written")]
    /\ UNCHANGED rcs
    /\ CloneFrame

NextClone == CallClone \/ CompositeStep \/ GetEnvOfClone \/ AssignEnv \/ WriteEnvOfClone

SpecClone == InitClone /\ [][NextClone]_vars

\* ------------------------------------------------------------------ C21

\* the positions of runsOn whose label interpolates to a non-empty name
NonEmptyLabels == {i \in 1..Len(runsOn) : InterpolateLabel(runsOn[i]) # <<>>}

\* the first of them
FirstNonEmptyLabel == CHOOSE i \in NonEmptyLabels : \A j \in NonEmptyLabels : i <= j

\* the last of them
LastNonEmptyLabel == CHOOSE i \in NonEmptyLabels : \A j \in NonEmptyLabels : j <= i

\* what C21 derives from one label: "ubuntu20" for "ubuntu-latest", otherwise
\* the label with its first hyphen removed and cut before the first dot
DerivedImageOS(l) ==
    IF l = UbuntuLatest THEN Ubuntu20
    ELSE LET h == FirstIndex(l, "-", 1)
             g == IF h = 0 THEN l ELSE SubSeq(l, 1, h - 1) \o SubSeq(l, h + 1, Len(l))
             d == FirstIndex(g, ".", 1)
         IN  IF d = 0 THEN g ELSE SubSeq(g, 1, d - 1)

\* C21 as stated: after withGithubEnv, ImageOS is derived from the first
\* runs-on label whose interpolation is not empty, whatever labels follow it
C21_ImageOSFromFirstLabel ==
    (githubEnv.called /\ NonEmptyLabels # {}) =>
        /\ githubEnv.set
        /\ githubEnv.ImageOS = DerivedImageOS(InterpolateLabel(runsOn[FirstNonEmptyLabel]))

\* what the loop does instead: ImageOS is derived from the last runs-on
\* label whose interpolation is not empty
C21_ImageOSFromLastLabel ==
    (githubEnv.called /\ NonEmptyLabels # {}) =>
        /\ githubEnv.set
        /\ githubEnv.ImageOS = DerivedImageOS(InterpolateLabel(runsOn[LastNonEmptyLabel]))

\* withGithubEnv has run on a list whose first and last non-empty labels
\* derive different values
C21_Witness ==
    /\ githubEnv.called
    /\ NonEmptyLabels # {}
    /\ DerivedImageOS(InterpolateLabel(runsOn[FirstNonEmptyLabel]))
         # DerivedImageOS(InterpolateLabel(runsOn[LastNonEmptyLabel]))

\* ------------------------------------------------------------------ C22

\* the value of key k when job env overrides workflow env, which overrides
\* Config.Env
ByPrecedence(k) ==
    IF k \in DOMAIN envLevels[3] THEN envLevels[3][k]
    ELSE IF k \in DOMAIN envLevels[2] THEN envLevels[2][k]
    ELSE envLevels[1][k]

\* the keys some level configures
ConfiguredKeys == DOMAIN envLevels[1] \cup DOMAIN envLevels[2] \cup DOMAIN envLevels[3]

\* C22: the first GetEnv() on a nil Env returns the merge of Config.Env,
\* workflow env and job env in which the job overrides the workflow and the
\* workflow overrides Config.Env; the merge is computed on that call only, a
\* later call returns the map as it is, with the keys written in between; and
\* after every call Env["ACT"] is "true", whatever was configured or written
C22_GetEnv ==
    getEnvLog.calls > 0 =>
        LET after == getEnvLog.after
        IN  /\ <<"ACT">> \in DOMAIN after /\ after[<<"ACT">>] = TrueValue
            /\ getEnvLog.merges = 1
            /\ getEnvLog.wasNil = (getEnvLog.calls = 1)
            /\ getEnvLog.wasNil =>
                  /\ DOMAIN after = ConfiguredKeys \cup {<<"ACT">>}
                  /\ \A k \in ConfiguredKeys \ {<<"ACT">>} : after[k] = ByPrecedence(k)
            /\ ~getEnvLog.wasNil =>
                  /\ DOMAIN after = DOMAIN getEnvLog.before \cup {<<"ACT">>}
                  /\ \A k \in DOMAIN getEnvLog.before \ {<<"ACT">>} :
                        after[k] = getEnvLog.before[k]

\* a second call of GetEnv found a key written after the first call, ACT
\* overwritten, and a key that all three levels configure
C22_Witness ==
    /\ getEnvLog.calls = 2
    /\ <<"W">> \in DOMAIN getEnvLog.before
    /\ getEnvLog.before[<<"ACT">>] = WrittenValue
    /\ \A i \in 1..3 : EnvKeys \subseteq DOMAIN envLevels[i]
    /\ Env = getEnvLog.after

\* ------------------------------------------------------------------ C23

\* two tasks are at statements of which one assigns splitPattern and the
\* other reads or assigns it, with nothing that orders them
PatternRace ==
    \E t \in Tasks : At(t, "compile") /\ (OtherAt(t, "compile") \/ OtherAt(t, "EvalBool"))

\* two tasks have both seen splitPattern unset and are both about to assign it
BothAssign == \E t \in Tasks : At(t, "compile") /\ OtherAt(t, "compile")

\* C23 as stated: under every interleaving of the tasks that call EvalBool,
\* splitPattern is assigned at most once, no task reads it while another
\* assigns it, and no two tasks have both seen it unset and both assign it
C23_SafeOnce ==
    /\ patternWrites <= 1
    /\ ~PatternRace
    /\ ~BothAssign

\* what holds of the lazy initialisation: every task that calls
\* FindAllString has seen a compiled pattern or assigned one
C23_CompiledBeforeUse ==
    \A t \in Tasks :
        At(t, "FindAllString") => (splitPattern = CompiledPattern \/ OtherAt(t, "compile"))

\* ------------------------------------------------------------------ C24

\* two tasks are at statements of which one assigns
\* Config.ContainerDaemonSocket and the other reads or assigns it
ConfigRace ==
    \E t \in Tasks :
        /\ At(t, "setSocket")
        /\ OtherAt(t, "setSocket") \/ OtherAt(t, "GetBindsAndMounts") \/ OtherAt(t, "Sprintf")

\* C24 as stated: the run contexts that run in parallel only read the Config
\* they share: nothing a job does (the start of its container with
\* GetBindsAndMounts, its steps, its teardown) assigns a field of Config, and
\* no two of them race on it
C24_ConfigReadOnly ==
    /\ configWrites = 0
    /\ ~ConfigRace

\* what holds instead: a configured daemon socket is never assigned
C24_ConfiguredSocketKept ==
    configWrites > 0 => Config.ContainerDaemonSocket = DefaultSocket

\* ------------------------------------------------------------------ C25

\* the fields of a run context that Clone() copies as they are
CopiedFields == DOMAIN rcs["parent"] \ (DOMAIN ZeroFields \cup {"Parent"})

\* one step of the run contexts, as C25 allows it
C25_Step ==
    /\ rcs'["parent"] = rcs["parent"]
    /\ (~Cloned /\ Cloned') =>
          LET p == rcs["parent"]
              c == rcs'["clone"]
          IN  /\ \A f \in DOMAIN ZeroFields : c[f] = ZeroFields[f]
              /\ c.Parent = "parent"
              /\ \A f \in CopiedFields : c[f] = p[f]
              /\ heap' = heap
    /\ Cloned =>
          LET p == rcs["parent"]
          IN  /\ p.StepResults # NilRef =>
                    /\ heap'[p.StepResults] = heap[p.StepResults]
                    /\ rcs'["clone"].StepResults # p.StepResults
              /\ (p.Env # NilRef /\ rcs'["clone"].Env # rcs["clone"].Env) =>
                    heap'[p.Env] = heap[p.Env]
              /\ (p.Env # NilRef /\ rcs["clone"].Env # p.Env) => heap'[p.Env] = heap[p.Env]

\* C25: Clone leaves every field of the original unchanged and returns a run
\* context whose CurrentStep, ActionPath, ActionRef, ActionRepository,
\* Composite, Inputs and StepResults are zero, whose Parent is the original
\* and whose other fields equal the original's (Config, Run and Env being
\* the same references); afterwards the results of the steps dispatched on
\* the clone never add to or change the StepResults of the original, and
\* giving the clone a new Env map, and writing to it, does not change the
\* Env of the original
C25_Clone == [][C25_Step]_vars

\* the clone of a run context that ran an action, with step results and an
\* Env, has recorded step results of its own and has been given an Env of
\* its own that holds a write
C25_Witness ==
    /\ Cloned
    /\ rcs["parent"].ActionPath # "" /\ rcs["parent"].CurrentStep # ""
    /\ rcs["parent"].StepResults # NilRef /\ heap[rcs["parent"].StepResults] # EmptyMap
    /\ rcs["clone"].StepResults # NilRef
    /\ DOMAIN heap[rcs["clone"].StepResults] = CompositeStepIDs
    /\ rcs["parent"].Env # NilRef
    /\ rcs["clone"].Env \notin {NilRef, rcs["parent"].Env}
    /\ heap[rcs["clone"].Env]["K"] = "written"
    /\ heap[rcs["parent"].Env]["K"] = "parent"

====
